---- MODULE Spec2Model ----
(***************************************************************************)
(* Model of brain/optimized.py: the meeting-city optimiser.                *)
(*                                                                         *)
(* Representation.                                                         *)
(*  - An instant is a number of minutes since the epoch of the schedule    *)
(*    files; a date is an instant \div MinutesPerDay.                      *)
(*  - A float quantity in tonnes or in hours is held in fixed point, as a  *)
(*    number of 1/Scale units, so that the HHMM conversion of ELPTIM and   *)
(*    whole hours are exact.                                               *)
(*  - A polars frame is a set of rows; every schedule row carries its      *)
(*    position in its file (ROW) and every derived row the positions it    *)
(*    was joined from (rows), so that a set of rows is a bag of rows.      *)
(*  - Python's None / a polars null is None in an instant or number        *)
(*    column and NoneStr in a string column.                               *)
(***************************************************************************)
EXTENDS Integers, Sequences, FiniteSets, TLC

MaxHead == 2
NumDays == 2

Scale == 60 * 100
MinutesPerDay == 24 * 60
None == 0 - 1
NoneStr == "None"

(***************************************************************************)
(* Small helpers for Python / polars primitives.                           *)
(***************************************************************************)
Range(s) == {s[i] : i \in DOMAIN s}

\* sum of the values of a function with a finite domain
RECURSIVE SumFn(_)
SumFn(f) ==
    IF DOMAIN f = {} THEN 0
    ELSE LET x == CHOOSE y \in DOMAIN f : TRUE
         IN f[x] + SumFn([y \in (DOMAIN f) \ {x} |-> f[y]])

RECURSIVE SeqSum(_)
SeqSum(s) == IF s = <<>> THEN 0 ELSE Head(s) + SeqSum(Tail(s))

SetMax(S) == CHOOSE x \in S : \A y \in S : y <= x
SetMin(S) == CHOOSE x \in S : \A y \in S : x <= y

\* Integer division truncating toward zero (Rust / polars integer division)
TruncDiv(a, b) == IF a >= 0 THEN a \div b ELSE -((-a) \div b)

\* str.slice(-3): the last three characters (the whole string when shorter)
StrSliceLast3(s) == IF Len(s) <= 3 THEN s ELSE SubSeq(s, Len(s) - 2, Len(s))

CITY_TO_CODE_MAP ==
    [n \in {"London", "Paris", "Zurich"} |->
        CASE n = "London" -> "LON"
          [] n = "Paris"  -> "PAR"
          [] n = "Zurich" -> "ZRH"]

\* CITY_TO_CODE_MAP.get(name)
CityCode(name) ==
    IF name \in DOMAIN CITY_TO_CODE_MAP THEN CITY_TO_CODE_MAP[name] ELSE NoneStr

(***************************************************************************)
(* The data files on disk (the environment of the program).                *)
(* One schedule file per day; a day's file is absent (version 0) or holds  *)
(* one of the timetables below.  Times of day are minutes after midnight.  *)
(***************************************************************************)
Days == 0 .. (NumDays - 1)

\* the schedule directories the model starts from: the same timetable every
\* day, the two timetables on alternate days, no file at all, only the
\* file of day 0 missing, or only the file of day 0 present (timetable 3)
DiskChoices ==
    { [d \in Days |-> v] : v \in {0, 1, 2} }
    \cup { [d \in Days |-> 1 + ((d + k) % 2)] : k \in {0, 1} }
    \cup { [d \in Days |-> IF d = 0 THEN 0 ELSE 1] }
    \cup { [d \in Days |-> IF d = 0 THEN 3 ELSE 0] }

\* the aircraft rostered on day d (EQUIPMENT_CD_ICAO) and a wide-body, a regional jet
Airbus(d) ==
    CASE d % 3 = 0 -> <<"A", "3", "2", "0">>
      [] d % 3 = 1 -> <<"A", "3", "2", "1">>
      [] OTHER     -> <<"A", "3", "1", "9">>
B77W == <<"B", "7", "7", "W">>
E190 == <<"E", "1", "9", "0">>

CsvRow(d, n, carrier, fltno, dapt, aapt, dcity, acity, dep, arr, elptim, stops, eq, svc, op) ==
    [ROW |-> <<d, n>>, CARRIER |-> carrier, FLTNO |-> fltno,
     DEPAPT |-> dapt, ARRAPT |-> aapt, DEPCITY |-> dcity, ARRCITY |-> acity,
     SCHEDULED_DEPARTURE_DATE_TIME_UTC |-> d * MinutesPerDay + dep,
     SCHEDULED_ARRIVAL_DATE_TIME_UTC |-> d * MinutesPerDay + arr,
     ELPTIM |-> elptim, STOPS |-> stops, EQUIPMENT_CD_ICAO |-> eq,
     SERVICE |-> svc, OPERATING |-> op]

\* Timetable 1: direct LON<->PAR flights and a hub at ZRH; a cargo flight and
\* a flight with a stop.
Timetable1(d) ==
    { CsvRow(d, 1, "BA", 304, "LHR", "CDG", "LON", "PAR", 480, 600, 200, 0, Airbus(d), "J", "Y"),
      CsvRow(d, 2, "AF", 1681, "CDG", "LHR", "PAR", "LON", 1080, 1200, 200, 0, Airbus(d), "J", "Y"),
      CsvRow(d, 3, "LX", 317, "LHR", "ZRH", "LON", "ZRH", 360, 480, 200, 0, Airbus(d), "J", "Y"),
      CsvRow(d, 4, "LX", 632, "ZRH", "CDG", "ZRH", "PAR", 600, 690, 130, 0, Airbus(d), "J", "Y"),
      CsvRow(d, 5, "LX", 633, "CDG", "ZRH", "PAR", "ZRH", 720, 810, 130, 0, Airbus(d), "J", "Y"),
      CsvRow(d, 6, "LX", 318, "ZRH", "LHR", "ZRH", "LON", 915, 1035, 200, 0, Airbus(d), "J", "Y"),
      CsvRow(d, 7, "FX", 5001, "LHR", "CDG", "LON", "PAR", 420, 540, 200, 0, Airbus(d), "F", "Y"),
      CsvRow(d, 8, "AF", 1780, "CDG", "LHR", "PAR", "LON", 1020, 1260, 400, 1, Airbus(d), "J", "Y") }

\* Timetable 2: no usable direct LON<->PAR flight (one has no emission factor,
\* one is not operating), connections over ZRH with layovers of 90, 135, 480
\* and 479 minutes.
Timetable2(d) ==
    { CsvRow(d, 1, "LX", 317, "LHR", "ZRH", "LON", "ZRH", 360, 480, 200, 0, Airbus(d), "J", "Y"),
      CsvRow(d, 2, "LX", 630, "ZRH", "CDG", "ZRH", "PAR", 570, 660, 130, 0, Airbus(d), "J", "Y"),
      CsvRow(d, 3, "LX", 634, "ZRH", "CDG", "ZRH", "PAR", 615, 705, 130, 0, Airbus(d), "J", "Y"),
      CsvRow(d, 4, "LX", 636, "ZRH", "CDG", "ZRH", "PAR", 960, 1050, 130, 0, E190, "J", "Y"),
      CsvRow(d, 5, "LX", 633, "CDG", "ZRH", "PAR", "ZRH", 720, 810, 130, 0, Airbus(d), "J", "Y"),
      CsvRow(d, 6, "LX", 326, "ZRH", "LHR", "ZRH", "LON", 1289, 1409, 200, 0, Airbus(d), "J", "Y"),
      CsvRow(d, 7, "BA", 306, "LHR", "CDG", "LON", "PAR", 540, 660, 200, 0, B77W, "J", "Y"),
      CsvRow(d, 8, "AF", 1681, "CDG", "LHR", "PAR", "LON", 1080, 1200, 200, 0, Airbus(d), "J", "N") }

\* Timetable 3: a LON<->PAR shuttle, three flights out in the morning and
\* three back in the evening, on three aircraft types: nine round trips of
\* different CO2 and different stays; and a morning flight from London to
\* each of Zurich and Amsterdam with an evening flight back: four cities a
\* group from London can meet in.
A320 == <<"A", "3", "2", "0">>
A321 == <<"A", "3", "2", "1">>
A319 == <<"A", "3", "1", "9">>

Timetable3(d) ==
    { CsvRow(d, 1, "BA", 302, "LHR", "CDG", "LON", "PAR", 360, 480, 200, 0, A320, "J", "Y"),
      CsvRow(d, 2, "BA", 304, "LHR", "CDG", "LON", "PAR", 420, 540, 200, 0, A319, "J", "Y"),
      CsvRow(d, 3, "BA", 306, "LHR", "CDG", "LON", "PAR", 480, 600, 200, 0, A321, "J", "Y"),
      CsvRow(d, 4, "AF", 1681, "CDG", "LHR", "PAR", "LON", 1110, 1230, 200, 0, A319, "J", "Y"),
      CsvRow(d, 5, "AF", 1683, "CDG", "LHR", "PAR", "LON", 1140, 1260, 200, 0, A321, "J", "Y"),
      CsvRow(d, 6, "AF", 1685, "CDG", "LHR", "PAR", "LON", 1170, 1290, 200, 0, A320, "J", "Y"),
      CsvRow(d, 7, "LX", 317, "LHR", "ZRH", "LON", "ZRH", 360, 480, 200, 0, A320, "J", "Y"),
      CsvRow(d, 8, "LX", 326, "ZRH", "LHR", "ZRH", "LON", 1200, 1320, 200, 0, A320, "J", "Y"),
      CsvRow(d, 9, "KL", 1000, "LHR", "AMS", "LON", "AMS", 420, 500, 120, 0, A320, "J", "Y"),
      CsvRow(d, 10, "KL", 1001, "AMS", "LHR", "AMS", "LON", 1140, 1220, 120, 0, A320, "J", "Y") }

ScheduleFile(d, v) ==
    CASE v = 1 -> Timetable1(d)
      [] v = 2 -> Timetable2(d)
      [] v = 3 -> Timetable3(d)
      [] OTHER -> {}

EmissionsRow(n, dapt, aapt, type, seats, total) ==
    [ROW |-> n, DEPARTURE_AIRPORT |-> dapt, ARRIVAL_AIRPORT |-> aapt,
     AIRCRAFT_TYPE |-> type, SEATS |-> seats,
     ESTIMATED_CO2_TOTAL_TONNES |-> total]

\* challenge_data/emissions.csv
EmissionsFile ==
    { EmissionsRow(1, "LHR", "CDG", <<"3", "2", "0">>, 150, 15),
      EmissionsRow(2, "LHR", "CDG", <<"3", "2", "1">>, 200, 22),
      EmissionsRow(3, "LHR", "CDG", <<"3", "1", "9">>, 120, 13),
      EmissionsRow(4, "CDG", "LHR", <<"3", "2", "0">>, 150, 15),
      EmissionsRow(5, "CDG", "LHR", <<"3", "2", "1">>, 200, 21),
      EmissionsRow(6, "CDG", "LHR", <<"3", "1", "9">>, 120, 14),
      EmissionsRow(7, "LHR", "ZRH", <<"3", "2", "0">>, 150, 24),
      EmissionsRow(8, "LHR", "ZRH", <<"3", "2", "1">>, 200, 30),
      EmissionsRow(9, "LHR", "ZRH", <<"3", "1", "9">>, 120, 19),
      EmissionsRow(10, "ZRH", "LHR", <<"3", "2", "0">>, 150, 24),
      EmissionsRow(11, "ZRH", "LHR", <<"3", "2", "1">>, 200, 31),
      EmissionsRow(12, "ZRH", "LHR", <<"3", "1", "9">>, 120, 18),
      EmissionsRow(13, "ZRH", "CDG", <<"3", "2", "0">>, 150, 18),
      EmissionsRow(14, "ZRH", "CDG", <<"3", "2", "1">>, 200, 25),
      EmissionsRow(15, "ZRH", "CDG", <<"3", "1", "9">>, 120, 15),
      EmissionsRow(16, "CDG", "ZRH", <<"3", "2", "0">>, 150, 18),
      EmissionsRow(17, "CDG", "ZRH", <<"3", "2", "1">>, 200, 26),
      EmissionsRow(18, "CDG", "ZRH", <<"3", "1", "9">>, 120, 14),
      EmissionsRow(19, "ZRH", "CDG", <<"1", "9", "0">>, 100, 14),
      EmissionsRow(20, "LHR", "CDG", <<"7", "7", "W">>, 0, 90),
      EmissionsRow(21, "LHR", "AMS", <<"3", "2", "0">>, 150, 12),
      EmissionsRow(22, "AMS", "LHR", <<"3", "2", "0">>, 150, 12) }

(***************************************************************************)
(* State.                                                                  *)
(***************************************************************************)
VARIABLES
    disk,                \* challenge_data/schedules: day -> version of its file (0: no file)
    schedules_lazy_df,   \* global: the rows of the schedule frame (the files never change under a run)
    COMPATIBILITY_MAP,   \* global: set of <<DEPCITY, ARRCITY>>
    ROUND_TRIP_CACHE,    \* global: cache_key -> frame of round trips
    pc,                  \* position of the running find_best_meeting call
    args,                \* its arguments and parsed scenario
    cityOrder,           \* observed: the scored cities, in the order the Phase-1 loop visited them
    city_scores,         \* list of [city, score]
    top_3_cities,
    rank,                \* loop index i of Phase 2
    final_output_list,
    ret,                 \* what the call returned or raised
    chosen,              \* observed: per result record, the itinerary it was built from
    history,             \* observed: every (key, result) get_all_valid_round_trips returned in this run
    legs,                \* observed: every leg find_flights returned in this run, with the call's cities
    steps                \* observed: the steps the running call has taken, in order

vars == <<disk, schedules_lazy_df, COMPATIBILITY_MAP, ROUND_TRIP_CACHE, pc, args,
          cityOrder, city_scores, top_3_cities, rank, final_output_list,
          ret, chosen, history, legs, steps>>

(***************************************************************************)
(* Section 4: loading the frames.                                          *)
(***************************************************************************)
get_schedule_files_for_window_unchecked(start_date, end_date) ==
    {d \in Days : start_date <= d /\ d <= end_date}

\* get_schedule_files_for_window: the days of the window whose file exists
get_schedule_files_for_window(start_date, end_date) ==
    {d \in Days : start_date <= d /\ d <= end_date /\ disk[d] # 0}

\* (ELPTIM / 100).floor() + (ELPTIM % 100) / 60, in 1/Scale hours
TRAVEL_HOURS(elptim) ==
    IF elptim = None THEN None
    ELSE (elptim \div 100) * Scale + ((elptim % 100) * Scale) \div 60

\* get_lazy_schedules: derived columns, then SERVICE == "J" and OPERATING != "N"
get_lazy_schedules(file_list) ==
    { [ROW |-> r.ROW, CARRIER |-> r.CARRIER, FLTNO |-> r.FLTNO,
       DEPAPT |-> r.DEPAPT, ARRAPT |-> r.ARRAPT,
       DEPCITY |-> r.DEPCITY, ARRCITY |-> r.ARRCITY, STOPS |-> r.STOPS,
       TRAVEL_HOURS |-> TRAVEL_HOURS(r.ELPTIM),
       DEPART_TIME_UTC |-> r.SCHEDULED_DEPARTURE_DATE_TIME_UTC,
       ARRIVE_TIME_UTC |-> r.SCHEDULED_ARRIVAL_DATE_TIME_UTC,
       AIRCRAFT_TYPE_CLEAN |-> StrSliceLast3(r.EQUIPMENT_CD_ICAO)] :
      r \in { x \in UNION {ScheduleFile(d, disk[d]) : d \in file_list} :
                x.SERVICE = "J" /\ x.OPERATING # "N" /\ x.OPERATING # NoneStr } }

\* get_lazy_emissions: CO2 per seat, SEATS > 0, one row per key
\* (emissions.csv holds no two rows with the same key, so unique() drops nothing)
get_lazy_emissions ==
    { [DEPARTURE_AIRPORT |-> e.DEPARTURE_AIRPORT, ARRIVAL_AIRPORT |-> e.ARRIVAL_AIRPORT,
       AIRCRAFT_TYPE |-> e.AIRCRAFT_TYPE,
       CO2_PER_PERSON_TONNES |-> (e.ESTIMATED_CO2_TOTAL_TONNES * Scale) \div e.SEATS] :
      e \in { x \in EmissionsFile : x.SEATS > 0 } }

emissions_lazy_df == get_lazy_emissions

create_compatibility_map_stops(schedules_df) ==
    { <<r.DEPCITY, r.ARRCITY>> : r \in { x \in schedules_df : x.STOPS # 0 } }

\* create_compatibility_map: the distinct (DEPCITY, ARRCITY) of the STOPS == 0 rows
create_compatibility_map(schedules_df) ==
    { <<r.DEPCITY, r.ARRCITY>> : r \in { x \in schedules_df : x.STOPS = 0 } }

(***************************************************************************)
(* Section 6: the core scoring engines.                                    *)
(***************************************************************************)
\* a frame of emissions rows indexed by its join key
IndexByKey(frame) ==
    [k \in { <<e.DEPARTURE_AIRPORT, e.ARRIVAL_AIRPORT, e.AIRCRAFT_TYPE>> : e \in frame } |->
        { e \in frame : <<e.DEPARTURE_AIRPORT, e.ARRIVAL_AIRPORT, e.AIRCRAFT_TYPE>> = k }]

EmissionsIndex == IndexByKey(emissions_lazy_df)

\* the joined rows of schedule row r: one per emissions row of its key
JoinedRows(index, r) ==
    { [flight |-> r, CO2_PER_PERSON_TONNES |-> e.CO2_PER_PERSON_TONNES] :
        e \in IF <<r.DEPAPT, r.ARRAPT, r.AIRCRAFT_TYPE_CLEAN>> \in DOMAIN index
              THEN index[<<r.DEPAPT, r.ARRAPT, r.AIRCRAFT_TYPE_CLEAN>>]
              ELSE {} }

\* inner join of schedule rows with the emissions frame on
\* (DEPAPT, ARRAPT, AIRCRAFT_TYPE_CLEAN) = (DEPARTURE_AIRPORT, ARRIVAL_AIRPORT, AIRCRAFT_TYPE)
JoinEmissions(rows) ==
    UNION { JoinedRows(EmissionsIndex, r) : r \in rows }

min_layover == 90
max_layover == 480

\* (DEPART_TIME_UTC_leg2 - ARRIVE_TIME_UTC).dt.total_hours(): whole hours
layover(j1, j2) ==
    TruncDiv(j2.flight.DEPART_TIME_UTC - j1.flight.ARRIVE_TIME_UTC, 60)

ValidConnection_closed(j1, j2) ==
    /\ layover(j1, j2) * 60 > min_layover
    /\ layover(j1, j2) * 60 <= max_layover

\* layover > min_layover.total_seconds() / 3600 and
\* layover < max_layover.total_seconds() / 3600 (both sides times 60)
ValidConnection(j1, j2) ==
    /\ layover(j1, j2) * 60 > min_layover
    /\ layover(j1, j2) * 60 < max_layover

direct_flights_with_co2(home_code, meeting_city_code, window_start, window_end) ==
    { l \in { [LEG_CO2 |-> j.CO2_PER_PERSON_TONNES,
               LEG_TRAVEL_HOURS |-> j.flight.TRAVEL_HOURS,
               DEPART_TIME_UTC |-> j.flight.DEPART_TIME_UTC,
               ARRIVE_TIME_UTC |-> j.flight.ARRIVE_TIME_UTC,
               Route_Type |-> "Direct",
               CARRIER |-> j.flight.CARRIER, FLTNO |-> j.flight.FLTNO,
               DEPAPT |-> j.flight.DEPAPT, ARRAPT |-> j.flight.ARRAPT,
               rows |-> <<j.flight.ROW>>] :
              j \in JoinEmissions({ r \in schedules_lazy_df :
                        /\ r.DEPCITY = home_code
                        /\ r.ARRCITY = meeting_city_code
                        /\ r.STOPS = 0
                        /\ r.DEPART_TIME_UTC # None /\ r.DEPART_TIME_UTC >= window_start
                        /\ r.ARRIVE_TIME_UTC # None /\ r.ARRIVE_TIME_UTC <= window_end }) } :
      l.LEG_CO2 # None /\ l.LEG_TRAVEL_HOURS # None }

one_stop_flights_any_departure(home_code, meeting_city_code, window_start, window_end) ==
    LET leg1_lazy == JoinEmissions({ r \in schedules_lazy_df :
                        /\ r.DEPCITY = home_code
                        /\ r.STOPS = 0
                        /\ r.DEPART_TIME_UTC # None })
        leg2_lazy == JoinEmissions({ r \in schedules_lazy_df :
                        /\ r.ARRCITY = meeting_city_code
                        /\ r.STOPS = 0
                        /\ r.ARRIVE_TIME_UTC # None /\ r.ARRIVE_TIME_UTC <= window_end })
        connections_lazy == { p \in leg1_lazy \X leg2_lazy :
                                p[1].flight.ARRAPT = p[2].flight.DEPAPT }
        valid_connections == { p \in connections_lazy :
                                 /\ p[1].flight.ARRIVE_TIME_UTC # None
                                 /\ p[2].flight.DEPART_TIME_UTC # None
                                 /\ ValidConnection(p[1], p[2]) }
    IN { l \in { [LEG_CO2 |-> p[1].CO2_PER_PERSON_TONNES + p[2].CO2_PER_PERSON_TONNES,
                  LEG_TRAVEL_HOURS |->
                      IF p[1].flight.TRAVEL_HOURS = None \/ p[2].flight.TRAVEL_HOURS = None
                      THEN None
                      ELSE p[1].flight.TRAVEL_HOURS + p[2].flight.TRAVEL_HOURS
                           + layover(p[1], p[2]) * Scale,
                  DEPART_TIME_UTC |-> p[1].flight.DEPART_TIME_UTC,
                  ARRIVE_TIME_UTC |-> p[2].flight.ARRIVE_TIME_UTC,
                  Route_Type |-> "1-Stop",
                  CARRIER |-> p[1].flight.CARRIER, FLTNO |-> p[1].flight.FLTNO,
                  DEPAPT |-> p[1].flight.DEPAPT, ARRAPT |-> p[2].flight.ARRAPT,
                  rows |-> <<p[1].flight.ROW, p[2].flight.ROW>>] :
                 p \in valid_connections } :
         l.LEG_CO2 # None /\ l.LEG_TRAVEL_HOURS # None }

one_stop_flights(home_code, meeting_city_code, window_start, window_end) ==
    LET leg1_lazy == JoinEmissions({ r \in schedules_lazy_df :
                        /\ r.DEPCITY = home_code
                        /\ r.STOPS = 0
                        /\ r.DEPART_TIME_UTC # None /\ r.DEPART_TIME_UTC >= window_start })
        leg2_lazy == JoinEmissions({ r \in schedules_lazy_df :
                        /\ r.ARRCITY = meeting_city_code
                        /\ r.STOPS = 0
                        /\ r.ARRIVE_TIME_UTC # None /\ r.ARRIVE_TIME_UTC <= window_end })
        connections_lazy == { p \in leg1_lazy \X leg2_lazy :
                                p[1].flight.ARRAPT = p[2].flight.DEPAPT }
        valid_connections == { p \in connections_lazy :
                                 /\ p[1].flight.ARRIVE_TIME_UTC # None
                                 /\ p[2].flight.DEPART_TIME_UTC # None
                                 /\ ValidConnection(p[1], p[2]) }
    IN { l \in { [LEG_CO2 |-> p[1].CO2_PER_PERSON_TONNES + p[2].CO2_PER_PERSON_TONNES,
                  LEG_TRAVEL_HOURS |->
                      IF p[1].flight.TRAVEL_HOURS = None \/ p[2].flight.TRAVEL_HOURS = None
                      THEN None
                      ELSE p[1].flight.TRAVEL_HOURS + p[2].flight.TRAVEL_HOURS
                           + layover(p[1], p[2]) * Scale,
                  DEPART_TIME_UTC |-> p[1].flight.DEPART_TIME_UTC,
                  ARRIVE_TIME_UTC |-> p[2].flight.ARRIVE_TIME_UTC,
                  Route_Type |-> "1-Stop",
                  CARRIER |-> p[1].flight.CARRIER, FLTNO |-> p[1].flight.FLTNO,
                  DEPAPT |-> p[1].flight.DEPAPT, ARRAPT |-> p[2].flight.ARRAPT,
                  rows |-> <<p[1].flight.ROW, p[2].flight.ROW>>] :
                 p \in valid_connections } :
         l.LEG_CO2 # None /\ l.LEG_TRAVEL_HOURS # None }

find_flights_inverted(home_code, meeting_city_code, window_start, window_end, include_connecting) ==
    direct_flights_with_co2(home_code, meeting_city_code, window_start, window_end)
    \cup IF include_connecting
         THEN {}
         ELSE one_stop_flights(home_code, meeting_city_code, window_start, window_end)

\* find_flights: the direct legs, and the one-stop legs when include_connecting
find_flights(home_code, meeting_city_code, window_start, window_end, include_connecting) ==
    direct_flights_with_co2(home_code, meeting_city_code, window_start, window_end)
    \cup IF ~include_connecting
         THEN {}
         ELSE one_stop_flights(home_code, meeting_city_code, window_start, window_end)

\* datetime.isoformat(): the date and the time of day
isoformat(t) == <<t \div MinutesPerDay, t % MinutesPerDay>>

cache_key_no_flag(home_code, meeting_city_code, window_start, window_end, event_duration_hours, include_connecting) ==
    <<home_code, meeting_city_code, isoformat(window_start), isoformat(window_end),
      event_duration_hours, TRUE>>

cache_key(home_code, meeting_city_code, window_start, window_end, event_duration_hours, include_connecting) ==
    <<home_code, meeting_city_code, isoformat(window_start), isoformat(window_end),
      event_duration_hours, include_connecting>>

\* the one-row frame of a local attendee (home_code == meeting_city_code)
LocalTrip ==
    [TOTAL_CO2 |-> 0, TOTAL_TRAVEL_HOURS |-> 0,
     first_arrival |-> None, last_departure |-> None,
     Outbound_Route |-> "Local", Inbound_Route |-> "Local",
     outbound_carrier |-> NoneStr, outbound_fltno |-> None,
     outbound_dep_utc |-> None, outbound_dep_apt |-> NoneStr,
     outbound_arr_apt |-> NoneStr,
     inbound_carrier |-> NoneStr, inbound_fltno |-> None,
     inbound_dep_utc |-> None, inbound_dep_apt |-> NoneStr,
     inbound_arr_apt |-> NoneStr,
     rows |-> <<>>]

all_round_trips_ge(flights_to, flights_from, event_duration_hours) ==
    { [TOTAL_CO2 |-> p[1].LEG_CO2 + p[2].LEG_CO2,
       TOTAL_TRAVEL_HOURS |-> p[1].LEG_TRAVEL_HOURS + p[2].LEG_TRAVEL_HOURS,
       first_arrival |-> p[1].ARRIVE_TIME_UTC,
       last_departure |-> p[2].DEPART_TIME_UTC,
       Outbound_Route |-> p[1].Route_Type, Inbound_Route |-> p[2].Route_Type,
       outbound_carrier |-> p[1].CARRIER, outbound_fltno |-> p[1].FLTNO,
       outbound_dep_utc |-> p[1].DEPART_TIME_UTC, outbound_dep_apt |-> p[1].DEPAPT,
       outbound_arr_apt |-> p[1].ARRAPT,
       inbound_carrier |-> p[2].CARRIER, inbound_fltno |-> p[2].FLTNO,
       inbound_dep_utc |-> p[2].DEPART_TIME_UTC, inbound_dep_apt |-> p[2].DEPAPT,
       inbound_arr_apt |-> p[2].ARRAPT,
       rows |-> <<p[1].rows, p[2].rows>>] :
      p \in { q \in flights_to \X flights_from :
                q[2].DEPART_TIME_UTC >= q[1].ARRIVE_TIME_UTC + event_duration_hours * 60 } }

\* the cross join of outbound and inbound legs, filtered on
\* DEPART_TIME_UTC_return > ARRIVE_TIME_UTC + timedelta(hours=event_duration_hours)
all_round_trips_cheapest(flights_to, flights_from, event_duration_hours) ==
    LET every == { [TOTAL_CO2 |-> p[1].LEG_CO2 + p[2].LEG_CO2,
           TOTAL_TRAVEL_HOURS |-> p[1].LEG_TRAVEL_HOURS + p[2].LEG_TRAVEL_HOURS,
           first_arrival |-> p[1].ARRIVE_TIME_UTC,
           last_departure |-> p[2].DEPART_TIME_UTC,
           Outbound_Route |-> p[1].Route_Type, Inbound_Route |-> p[2].Route_Type,
           outbound_carrier |-> p[1].CARRIER, outbound_fltno |-> p[1].FLTNO,
           outbound_dep_utc |-> p[1].DEPART_TIME_UTC, outbound_dep_apt |-> p[1].DEPAPT,
           outbound_arr_apt |-> p[1].ARRAPT,
           inbound_carrier |-> p[2].CARRIER, inbound_fltno |-> p[2].FLTNO,
           inbound_dep_utc |-> p[2].DEPART_TIME_UTC, inbound_dep_apt |-> p[2].DEPAPT,
           inbound_arr_apt |-> p[2].ARRAPT,
           rows |-> <<p[1].rows, p[2].rows>>] :
          p \in { q \in flights_to \X flights_from :
                    q[2].DEPART_TIME_UTC > q[1].ARRIVE_TIME_UTC + event_duration_hours * 60 } }
    IN { t \in every : \A u \in every : t.TOTAL_CO2 <= u.TOTAL_CO2 }

all_round_trips(flights_to, flights_from, event_duration_hours) ==
    { [TOTAL_CO2 |-> p[1].LEG_CO2 + p[2].LEG_CO2,
       TOTAL_TRAVEL_HOURS |-> p[1].LEG_TRAVEL_HOURS + p[2].LEG_TRAVEL_HOURS,
       first_arrival |-> p[1].ARRIVE_TIME_UTC,
       last_departure |-> p[2].DEPART_TIME_UTC,
       Outbound_Route |-> p[1].Route_Type, Inbound_Route |-> p[2].Route_Type,
       outbound_carrier |-> p[1].CARRIER, outbound_fltno |-> p[1].FLTNO,
       outbound_dep_utc |-> p[1].DEPART_TIME_UTC, outbound_dep_apt |-> p[1].DEPAPT,
       outbound_arr_apt |-> p[1].ARRAPT,
       inbound_carrier |-> p[2].CARRIER, inbound_fltno |-> p[2].FLTNO,
       inbound_dep_utc |-> p[2].DEPART_TIME_UTC, inbound_dep_apt |-> p[2].DEPAPT,
       inbound_arr_apt |-> p[2].ARRAPT,
       rows |-> <<p[1].rows, p[2].rows>>] :
      p \in { q \in flights_to \X flights_from :
                q[2].DEPART_TIME_UTC > q[1].ARRIVE_TIME_UTC + event_duration_hours * 60 } }

\* lines 256-291: the round trips of a pair of cities from the legs found
\* each way, and those legs with the cities they were asked for
round_trips_from_legs(home_code, meeting_city_code, flights_to, flights_from, event_duration_hours) ==
    [result |-> all_round_trips(flights_to, flights_from, event_duration_hours),
     legs |-> { [from |-> home_code, to |-> meeting_city_code, leg |-> l] : l \in flights_to }
              \cup { [from |-> meeting_city_code, to |-> home_code, leg |-> l] :
                       l \in flights_from }]

compute_round_trips_no_local(home_code, meeting_city_code, window_start, window_end, event_duration_hours, include_connecting) ==
    round_trips_from_legs(home_code, meeting_city_code,
        find_flights(home_code, meeting_city_code, window_start, window_end, include_connecting),
        find_flights(meeting_city_code, home_code, window_start, window_end, include_connecting),
        event_duration_hours)

\* the body of get_all_valid_round_trips after a cache miss
compute_round_trips(home_code, meeting_city_code, window_start, window_end, event_duration_hours, include_connecting) ==
    IF home_code = meeting_city_code
    THEN [result |-> {LocalTrip}, legs |-> {}]
    ELSE round_trips_from_legs(home_code, meeting_city_code,
             find_flights(home_code, meeting_city_code, window_start, window_end,
                          include_connecting),
             find_flights(meeting_city_code, home_code, window_start, window_end,
                          include_connecting),
             event_duration_hours)

\* lines 252-253 and 290-291: the computed frame c is stored under key and returned
StoreAndReturn(cache, key, c) ==
    [result |-> c.result, cache |-> (key :> c.result) @@ cache,
     legs |-> c.legs, key |-> key, hit |-> FALSE]

\* lines 230-231: the cached frame of key is returned
ReturnCached(cache, key) ==
    [result |-> cache[key], cache |-> cache, legs |-> {}, key |-> key, hit |-> TRUE]

\* get_all_valid_round_trips called with the cache holding `cache`: what it
\* returns, the cache it leaves and the legs find_flights handed to it
get_all_valid_round_trips(cache, home_code, meeting_city_code, window_start, window_end, event_duration_hours, include_connecting) ==
    IF cache_key(home_code, meeting_city_code, window_start, window_end,
                 event_duration_hours, include_connecting) \in DOMAIN cache
    THEN ReturnCached(cache, cache_key(home_code, meeting_city_code, window_start,
                                       window_end, event_duration_hours, include_connecting))
    ELSE StoreAndReturn(cache,
             cache_key(home_code, meeting_city_code, window_start, window_end,
                       event_duration_hours, include_connecting),
             compute_round_trips(home_code, meeting_city_code, window_start, window_end,
                                 event_duration_hours, include_connecting))

(***************************************************************************)
(* Python statistics and list primitives, in fixed point.                  *)
(***************************************************************************)
\* integer square root, by bisection on lo <= r < hi
RECURSIVE ISqrtIn(_, _, _)
ISqrtIn(x, lo, hi) ==
    IF hi - lo <= 1 THEN lo
    ELSE LET mid == (lo + hi) \div 2
         IN IF mid * mid <= x THEN ISqrtIn(x, mid, hi) ELSE ISqrtIn(x, lo, mid)

ISqrt(x) == ISqrtIn(x, 0, 46341)

\* statistics.mean of a list
Mean(s) == SeqSum(s) \div Len(s)

\* statistics.stdev of a list (sample standard deviation), computed on
\* deviations in steps of 10 units
Stdev(s) ==
    LET m == Mean(s)
        sq == [i \in DOMAIN s |-> ((s[i] - m) \div 10) * ((s[i] - m) \div 10)]
    IN ISqrt(SeqSum(sq) \div (Len(s) - 1)) * 10

\* Series.mean() of a column of a frame: the column maps each row to its value
ColumnMean(column) ==
    SumFn(column) \div Cardinality(DOMAIN column)

\* list.sort() of a list of numbers
RECURSIVE SortedInts(_)
SortedInts(s) ==
    IF s = <<>> THEN <<>>
    ELSE LET i == CHOOSE j \in DOMAIN s : \A k \in DOMAIN s : s[j] <= s[k]
         IN <<s[i]>> \o SortedInts(SubSeq(s, 1, i - 1) \o SubSeq(s, i + 1, Len(s)))

\* statistics.median of a list
Median(s) ==
    LET t == SortedInts(s)
        n == Len(t)
    IN IF n % 2 = 1 THEN t[(n + 1) \div 2]
       ELSE (t[n \div 2] + t[n \div 2 + 1]) \div 2

\* round(x, 2): x in 1/Scale units to the nearest hundredth, ties to even
Round2(x) ==
    LET step == Scale \div 100
        q == x \div step
        r == x % step
    IN IF 2 * r < step THEN q
       ELSE IF 2 * r > step THEN q + 1
       ELSE IF q % 2 = 0 THEN q ELSE q + 1

\* [x] * n
Repeat(x, n) == [i \in 1 .. n |-> x]

\* all the orders in which a set can be listed
Perms(S) ==
    { f \in [1 .. Cardinality(S) -> S] :
        \A i, j \in 1 .. Cardinality(S) : i # j => f[i] # f[j] }

RECURSIVE InsertByScore_unstable(_, _)
InsertByScore_unstable(x, sorted) ==
    IF sorted = <<>> THEN <<x>>
    ELSE IF x.score <= Head(sorted).score THEN <<x>> \o sorted
    ELSE <<Head(sorted)>> \o InsertByScore_unstable(x, Tail(sorted))

\* city_scores.sort(key=score): Python's sort is stable
RECURSIVE InsertByScore(_, _)
InsertByScore(x, sorted) ==
    IF sorted = <<>> THEN <<x>>
    ELSE IF x.score < Head(sorted).score THEN <<x>> \o sorted
    ELSE <<Head(sorted)>> \o InsertByScore(x, Tail(sorted))

RECURSIVE SortByScore(_)
SortByScore(s) ==
    IF s = <<>> THEN <<>>
    ELSE InsertByScore(s[Len(s)], SortByScore(SubSeq(s, 1, Len(s) - 1)))

(***************************************************************************)
(* Inputs of find_best_meeting.                                            *)
(***************************************************************************)
Group(name, count) == [home_city |-> name, attendee_count |-> count]

\* scenario["attendees"], in the order of the JSON object
AttendeeChoices ==
    { <<Group("London", h), Group("Paris", 1)>> : h \in 1 .. MaxHead }
    \cup { <<Group("London", 1)>>, <<Group("Atlantis", 1), Group("London", 1)>> }

\* availability windows: the whole calendar, its first day, the day after the last file, and the calendar from 07:00 of day 0 on
WindowChoices ==
    { <<0, NumDays * MinutesPerDay - 1>>,
      <<0, MinutesPerDay - 1>>,
      <<NumDays * MinutesPerDay, (NumDays + 1) * MinutesPerDay - 1>>,
      <<7 * 60, NumDays * MinutesPerDay - 1>> }

DurationChoices == {7, 8}

\* weights in hundredths: inside [0, 1], and outside it
WeightChoices == { <<50, 50>>, <<0, 100>>, <<100, 0>> }
BadWeightChoices == { <<101, 100>>, <<50, 0 - 1>>, <<0 - 50, 150>> }

Input(a, w, d, x, c) ==
    [attendees |-> a, window_start |-> w[1], window_end |-> w[2],
     event_duration_hours |-> d, weight_co2 |-> x[1], weight_avg_vs_std |-> x[2],
     consider_connecting_flights |-> c]

Inputs ==
    { Input(a, w, d, x, c) :
        a \in AttendeeChoices, w \in WindowChoices, d \in DurationChoices,
        x \in WeightChoices, c \in BOOLEAN }
    \cup { Input(<<Group("London", 1), Group("Paris", 1)>>, <<0, NumDays * MinutesPerDay - 1>>, 8, x, TRUE) :
             x \in BadWeightChoices }

NoArgs == [attendees |-> <<>>, window_start |-> 0, window_end |-> 0,
           event_duration_hours |-> 0, weight_co2 |-> 0, weight_avg_vs_std |-> 0,
           consider_connecting_flights |-> FALSE]

EmptyCache == <<>>
NoResult == [kind |-> "none", value |-> <<>>]

Init ==
    /\ disk \in DiskChoices
    /\ schedules_lazy_df = {}
    /\ COMPATIBILITY_MAP = {}
    /\ ROUND_TRIP_CACHE = EmptyCache
    /\ pc = "idle"
    /\ args = NoArgs
    /\ cityOrder = <<>>
    /\ city_scores = <<>>
    /\ top_3_cities = <<>>
    /\ rank = 0
    /\ final_output_list = <<>>
    /\ ret = NoResult
    /\ chosen = <<>>
    /\ history = {}
    /\ legs = {}
    /\ steps = <<>>

(***************************************************************************)
(* Section 9: find_best_meeting, phase by phase.                           *)
(***************************************************************************)
StaleCache == ROUND_TRIP_CACHE

\* lines 442-450: a call is entered and the cache is cleared
ClearedCache == EmptyCache

find_best_meeting ==
    /\ pc \in {"idle", "returned"}
    /\ pc' = "entered"
    /\ ROUND_TRIP_CACHE' = ClearedCache
    /\ args' = NoArgs
    /\ cityOrder' = <<>>
    /\ city_scores' = <<>>
    /\ top_3_cities' = <<>>
    /\ rank' = 0
    /\ final_output_list' = <<>>
    /\ ret' = NoResult
    /\ chosen' = <<>>
    /\ history' = {}
    /\ legs' = {}
    /\ steps' = <<"clear_cache">>
    /\ UNCHANGED <<disk, schedules_lazy_df, COMPATIBILITY_MAP>>

ValidWeight_open(w) == 0 < w /\ w < 100

\* A) 0.0 <= weight <= 1.0
ValidWeight(w) == 0 <= w /\ w <= 100

\* the arguments as far as a call that fails at line 454 or 456 has bound them:
\* the scenario file has not been read
WeightsOnly(in) ==
    [NoArgs EXCEPT !.weight_co2 = in.weight_co2,
                   !.weight_avg_vs_std = in.weight_avg_vs_std,
                   !.consider_connecting_flights = in.consider_connecting_flights]

\* lines 452-502 with the call's arguments and scenario `in`: validate the
\* weights, read the scenario, list the window's files, load them, build the
\* compatibility map
LoadWindow(in) ==
    /\ pc = "entered"
    /\ IF ~ValidWeight(in.weight_co2) \/ ~ValidWeight(in.weight_avg_vs_std)
       THEN /\ args' = WeightsOnly(in)
            /\ ret' = [kind |-> "raise", value |-> <<"ValueError">>]
            /\ pc' = "returned"
            /\ steps' = steps \o <<"validate_weights">>
            /\ UNCHANGED <<schedules_lazy_df, COMPATIBILITY_MAP>>
       ELSE LET relevant_files ==
                    get_schedule_files_for_window(in.window_start \div MinutesPerDay,
                                                  in.window_end \div MinutesPerDay)
            IN /\ args' = in
               /\ IF relevant_files = {}
                  THEN /\ ret' = [kind |-> "return",
                                  value |-> <<[error |-> "No schedule files found for the specified availability window."]>>]
                       /\ pc' = "returned"
                       /\ steps' = steps \o <<"validate_weights", "read_scenario",
                                               "list_schedule_files">>
                       /\ UNCHANGED <<schedules_lazy_df, COMPATIBILITY_MAP>>
                  ELSE /\ schedules_lazy_df' = get_lazy_schedules(relevant_files)
                       /\ COMPATIBILITY_MAP' = create_compatibility_map(schedules_lazy_df')
                       /\ ret' = NoResult
                       /\ pc' = "phase1"
                       /\ steps' = steps \o <<"validate_weights", "read_scenario",
                                               "list_schedule_files", "load_schedules",
                                               "load_emissions", "build_compatibility_map">>
    /\ UNCHANGED <<disk, ROUND_TRIP_CACHE, cityOrder, city_scores, top_3_cities, rank,
                   final_output_list, chosen, history, legs>>

Phase0 == \E in \in Inputs : LoadWindow(in)

\* D) all_home_codes and POTENTIAL_MEETING_CITIES (a set, listed in any order)
all_home_codes(attendees) ==
    { CityCode(attendees[i].home_city) : i \in DOMAIN attendees } \ {NoneStr}

potential_meeting_cities(frame, attendees) ==
    { r.ARRCITY : r \in { x \in frame : x.DEPCITY \in all_home_codes(attendees)
                                        /\ x.STOPS = 0 } }
    \cup all_home_codes(attendees)

\* the "PRE-FILTER" loop of lines 519-535
PreFilter(compat, attendees, city_code) ==
    \A i \in DOMAIN attendees :
        LET home_code == CityCode(attendees[i].home_city)
        IN \/ home_code = NoneStr
           \/ home_code = city_code
           \/ (<<home_code, city_code>> \in compat /\ <<city_code, home_code>> \in compat)

Samples_best(g, result) ==
    Repeat([home_city |-> g.home_city,
            avg_co2 |-> SetMin({ t.TOTAL_CO2 : t \in result }),
            avg_travel |-> SetMin({ t.TOTAL_TRAVEL_HOURS : t \in result })],
           g.attendee_count)

\* lines 553-560: the group's means, once per head
Samples(g, result) ==
    Repeat([home_city |-> g.home_city,
            avg_co2 |-> ColumnMean([t \in result |-> t.TOTAL_CO2]),
            avg_travel |-> ColumnMean([t \in result |-> t.TOTAL_TRAVEL_HOURS])],
           g.attendee_count)

\* the loop of lines 538-560 from attendee i on: the samples collected, the
\* cache left, whether the loop ran to its end, and the calls made.
\* ScoreLoopAfter is the iteration for group i once its call has returned r.
RECURSIVE ScoreLoop(_, _, _, _, _, _)
RECURSIVE ScoreLoopAfter(_, _, _, _, _, _)
ScoreLoopAfter(a, city_code, i, samples, calls, r) ==
    IF r.result = {}
    THEN [possible |-> FALSE, cache |-> r.cache, samples |-> samples,
          calls |-> calls \cup {r}]
    ELSE ScoreLoop(a, city_code, i + 1, r.cache,
                   samples \o Samples(a.attendees[i], r.result), calls \cup {r})

ScoreLoop(a, city_code, i, cache, samples, calls) ==
    IF i > Len(a.attendees)
    THEN [possible |-> TRUE, cache |-> cache, samples |-> samples, calls |-> calls]
    ELSE ScoreLoopAfter(a, city_code, i, samples, calls,
             get_all_valid_round_trips(cache, CityCode(a.attendees[i].home_city), city_code,
                 a.window_start, a.window_end, a.event_duration_hours,
                 a.consider_connecting_flights))

\* lines 562-568
Phase1TotalCO2(samples) == SeqSum([i \in DOMAIN samples |-> samples[i].avg_co2])

TotalScore_swapped(samples, weight_co2, weight_avg_vs_std) ==
    LET weight_fairness == 100 - weight_co2
        weight_std == 100 - weight_avg_vs_std
        total_co2 == Phase1TotalCO2(samples)
        travel_hours_list == [i \in DOMAIN samples |-> samples[i].avg_travel]
        avg_travel == Mean(travel_hours_list)
        std_dev_travel == IF Len(travel_hours_list) > 1 THEN Stdev(travel_hours_list) ELSE 0
        fairness_score == (weight_avg_vs_std * avg_travel + weight_std * std_dev_travel) \div 100
    IN (weight_fairness * total_co2 + weight_co2 * fairness_score) \div 100

TotalScore(samples, weight_co2, weight_avg_vs_std) ==
    LET weight_fairness == 100 - weight_co2
        weight_std == 100 - weight_avg_vs_std
        total_co2 == Phase1TotalCO2(samples)
        travel_hours_list == [i \in DOMAIN samples |-> samples[i].avg_travel]
        avg_travel == Mean(travel_hours_list)
        std_dev_travel == IF Len(travel_hours_list) > 1 THEN Stdev(travel_hours_list) ELSE 0
        fairness_score == (weight_avg_vs_std * avg_travel + weight_std * std_dev_travel) \div 100
    IN (weight_co2 * total_co2 + weight_fairness * fairness_score) \div 100

AfterScoreLoop_unchecked(a, st, city_code, l) ==
    [cache |-> l.cache,
     calls |-> st.calls \cup l.calls,
     city_scores |->
         IF l.samples # <<>>
         THEN Append(st.city_scores,
                     [city |-> city_code,
                      score |-> TotalScore(l.samples, a.weight_co2, a.weight_avg_vs_std),
                      total_co2 |-> Phase1TotalCO2(l.samples)])
         ELSE st.city_scores]

\* lines 562-577: the state after the attendee loop of city_code ended as l
AfterScoreLoop(a, st, city_code, l) ==
    [cache |-> l.cache,
     calls |-> st.calls \cup l.calls,
     city_scores |->
         IF l.possible /\ l.samples # <<>>
         THEN Append(st.city_scores,
                     [city |-> city_code,
                      score |-> TotalScore(l.samples, a.weight_co2, a.weight_avg_vs_std),
                      total_co2 |-> Phase1TotalCO2(l.samples)])
         ELSE st.city_scores]

\* one iteration of the loop over POTENTIAL_MEETING_CITIES (lines 516-577),
\* started with the cache and the scores in st
ScoreOneCity(a, compat, st, city_code) ==
    IF ~PreFilter(compat, a.attendees, city_code)
    THEN st
    ELSE AfterScoreLoop(a, st, city_code, ScoreLoop(a, city_code, 1, st.cache, <<>>, {}))

ScoreAll_first_only(a, compat, st, order) ==
    IF order = <<>> THEN st
    ELSE ScoreOneCity(a, compat, st, Head(order))

\* the whole loop, over the cities in the order given
RECURSIVE ScoreAll(_, _, _, _)
ScoreAll(a, compat, st, order) ==
    IF order = <<>> THEN st
    ELSE ScoreAll(a, compat, ScoreOneCity(a, compat, st, Head(order)), Tail(order))

Observe(calls) == { [key |-> c.key, result |-> c.result, hit |-> c.hit] : c \in calls }

\* lines 579-587 once the loop has ended in st: report that no city is valid,
\* or sort the scores and keep the first three
Phase1End(st) ==
    /\ cityOrder' = [i \in DOMAIN st.city_scores |-> st.city_scores[i].city]
    /\ ROUND_TRIP_CACHE' = st.cache
    /\ history' = history \cup Observe(st.calls)
    /\ legs' = legs \cup UNION { c.legs : c \in st.calls }
    /\ IF st.city_scores = <<>>
       THEN /\ ret' = [kind |-> "return",
                       value |-> <<[error |-> "No valid meeting locations found."]>>]
            /\ pc' = "returned"
            /\ city_scores' = <<>>
            /\ steps' = steps \o <<"phase1">>
            /\ UNCHANGED <<top_3_cities, rank>>
       ELSE /\ city_scores' = SortByScore(st.city_scores)
            /\ top_3_cities' = SubSeq(city_scores', 1,
                                  IF Len(city_scores') < 3 THEN Len(city_scores') ELSE 3)
            /\ rank' = 1
            /\ pc' = "phase2"
            /\ steps' = steps \o <<"phase1", "top_3">>
            /\ UNCHANGED ret

\* lines 504-587: list the candidate cities, score them in the order the list
\* happens to have, and end Phase 1
Phase1 ==
    /\ pc = "phase1"
    /\ \E order \in Perms(potential_meeting_cities(schedules_lazy_df, args.attendees)) :
         Phase1End(ScoreAll(args, COMPATIBILITY_MAP,
                            [cache |-> ROUND_TRIP_CACHE, calls |-> {}, city_scores |-> <<>>],
                            order))
    /\ UNCHANGED <<disk, schedules_lazy_df, COMPATIBILITY_MAP, args, final_output_list,
                   chosen>>

(***************************************************************************)
(* Section 7: get_final_json_for_city.                                     *)
(***************************************************************************)
RECURSIVE SortLimit_descending(_, _)
SortLimit_descending(frame, n) ==
    IF n = 0 \/ frame = {} THEN { <<>> }
    ELSE LET most == { t \in frame : \A u \in frame : t.TOTAL_CO2 >= u.TOTAL_CO2 }
         IN UNION { { <<t>> \o rest : rest \in SortLimit_descending(frame \ {t}, n - 1) } :
                    t \in most }

\* frame.sort("TOTAL_CO2").limit(n).to_dicts(): the sort is not stable and the
\* frame has no defined row order, so rows of equal TOTAL_CO2 come in any order
RECURSIVE SortLimit(_, _)
SortLimit(frame, n) ==
    IF n = 0 \/ frame = {} THEN { <<>> }
    ELSE LET least == { t \in frame : \A u \in frame : t.TOTAL_CO2 <= u.TOTAL_CO2 }
         IN UNION { { <<t>> \o rest : rest \in SortLimit(frame \ {t}, n - 1) } : t \in least }

\* lines 302-325 from attendee i on: the frame fetched for every group with a
\* known home, or the group at which no trip was found.
\* FetchTripsAfter is the iteration for group i once its call has returned r.
RECURSIVE FetchTrips(_, _, _, _, _, _, _)
RECURSIVE FetchTripsAfter(_, _, _, _, _, _, _)
FetchTripsAfter(a, city_code, ccf, i, frames, calls, r) ==
    IF r.result = {}
    THEN [found |-> FALSE, cache |-> r.cache, frames |-> frames, calls |-> calls \cup {r}]
    ELSE FetchTrips(a, city_code, ccf, i + 1, r.cache,
                    Append(frames, [home_city |-> a.attendees[i].home_city,
                                    attendee_count |-> a.attendees[i].attendee_count,
                                    trips |-> r.result]),
                    calls \cup {r})

FetchTrips(a, city_code, ccf, i, cache, frames, calls) ==
    IF i > Len(a.attendees)
    THEN [found |-> TRUE, cache |-> cache, frames |-> frames, calls |-> calls]
    ELSE IF CityCode(a.attendees[i].home_city) = NoneStr
         THEN FetchTrips(a, city_code, ccf, i + 1, cache, frames, calls)
         ELSE FetchTripsAfter(a, city_code, ccf, i, frames, calls,
                  get_all_valid_round_trips(cache, CityCode(a.attendees[i].home_city),
                      city_code, a.window_start, a.window_end, a.event_duration_hours, ccf))

\* trips_with_context of one group, for one outcome of the sort
WithContext(f, top_n_trips) ==
    [k \in DOMAIN top_n_trips |->
        [trip |-> top_n_trips[k], home_city |-> f.home_city,
         attendee_count |-> f.attendee_count]]

\* every city_trip_options the sorts can produce
RECURSIVE CityTripOptions(_, _)
CityTripOptions(frames, limit) ==
    IF frames = <<>> THEN { <<>> }
    ELSE { <<WithContext(Head(frames), top)>> \o rest :
             top \in SortLimit(Head(frames).trips, limit),
             rest \in CityTripOptions(Tail(frames), limit) }

\* itertools.product(*city_trip_options), in its order (the last list varies fastest)
RECURSIVE Product(_)
Product(options) ==
    IF options = <<>> THEN << <<>> >>
    ELSE LET rest == Product(Tail(options))
             first == Head(options)
             n == Len(rest)
         IN [k \in 1 .. (Len(first) * n) |->
                <<first[((k - 1) \div n) + 1]>> \o rest[((k - 1) % n) + 1]]

\* lines 333-338 and 364-375: arrivals and departures that are not None
ArrivalTimes(trips) ==
    { trips[k].trip.first_arrival : k \in DOMAIN trips } \ {None}
DepartureTimes(trips) ==
    { trips[k].trip.last_departure : k \in DOMAIN trips } \ {None}

\* (max(departure_times) - min(arrival_times)).total_seconds() / 3600, or 0
EventSpanHours(trips) ==
    IF ArrivalTimes(trips) = {} \/ DepartureTimes(trips) = {} THEN 0
    ELSE ((SetMax(DepartureTimes(trips)) - SetMin(ArrivalTimes(trips))) * Scale) \div 60

RECURSIVE BestCombination_last(_, _, _, _)
BestCombination_last(combinations, k, best_itinerary, best_itinerary_score) ==
    IF k > Len(combinations) THEN best_itinerary
    ELSE LET event_span_hours == EventSpanHours(combinations[k])
         IN IF best_itinerary_score = None \/ event_span_hours <= best_itinerary_score
            THEN BestCombination_last(combinations, k + 1, combinations[k], event_span_hours)
            ELSE BestCombination_last(combinations, k + 1, best_itinerary, best_itinerary_score)

\* lines 331-341: the first combination whose span is below every span before it
RECURSIVE BestCombination(_, _, _, _)
BestCombination(combinations, k, best_itinerary, best_itinerary_score) ==
    IF k > Len(combinations) THEN best_itinerary
    ELSE LET event_span_hours == EventSpanHours(combinations[k])
         IN IF best_itinerary_score = None \/ event_span_hours < best_itinerary_score
            THEN BestCombination(combinations, k + 1, combinations[k], event_span_hours)
            ELSE BestCombination(combinations, k + 1, best_itinerary, best_itinerary_score)

BestItinerary_from_zero(city_trip_options, optimize_span) ==
    IF optimize_span
    THEN BestCombination(Product(city_trip_options), 1, <<>>, 0)
    ELSE [g \in DOMAIN city_trip_options |-> city_trip_options[g][1]]

\* lines 328-343
BestItinerary(city_trip_options, optimize_span) ==
    IF optimize_span
    THEN BestCombination(Product(city_trip_options), 1, <<>>, None)
    ELSE [g \in DOMAIN city_trip_options |-> city_trip_options[g][1]]

\* final_trips_list_unrolled
RECURSIVE Unrolled(_)
Unrolled(best_itinerary) ==
    IF best_itinerary = <<>> THEN <<>>
    ELSE Repeat(Head(best_itinerary), Head(best_itinerary).attendee_count)
         \o Unrolled(Tail(best_itinerary))

RECURSIVE ItineraryList_no_skip(_)
ItineraryList_no_skip(best_itinerary) ==
    IF best_itinerary = <<>> THEN <<>>
    ELSE LET c == Head(best_itinerary)
             t == c.trip
         IN << <<t.outbound_dep_apt, t.outbound_arr_apt, t.outbound_carrier,
                 t.outbound_fltno,
                 IF t.outbound_dep_utc # None THEN isoformat(t.outbound_dep_utc) ELSE <<>>,
                 c.attendee_count, "out", t.Outbound_Route>>,
               <<t.inbound_dep_apt, t.inbound_arr_apt, t.inbound_carrier,
                 t.inbound_fltno,
                 IF t.inbound_dep_utc # None THEN isoformat(t.inbound_dep_utc) ELSE <<>>,
                 c.attendee_count, "in", t.Inbound_Route>> >>
            \o ItineraryList_no_skip(Tail(best_itinerary))

\* lines 387-414: the ticket list
RECURSIVE ItineraryList(_)
ItineraryList(best_itinerary) ==
    IF best_itinerary = <<>> THEN <<>>
    ELSE LET c == Head(best_itinerary)
             t == c.trip
         IN (IF t.Outbound_Route # "Local"
             THEN << <<t.outbound_dep_apt, t.outbound_arr_apt, t.outbound_carrier,
                       t.outbound_fltno,
                       IF t.outbound_dep_utc # None THEN isoformat(t.outbound_dep_utc)
                                                    ELSE <<>>,
                       c.attendee_count, "out", t.Outbound_Route>> >>
             ELSE <<>>)
            \o (IF t.Inbound_Route # "Local"
                THEN << <<t.inbound_dep_apt, t.inbound_arr_apt, t.inbound_carrier,
                          t.inbound_fltno,
                          IF t.inbound_dep_utc # None THEN isoformat(t.inbound_dep_utc)
                                                      ELSE <<>>,
                          c.attendee_count, "in", t.Inbound_Route>> >>
                ELSE <<>>)
            \o ItineraryList(Tail(best_itinerary))

OutputObject_first_arrival(city_code, rnk, phase_1_score, a, best_itinerary) ==
    LET unrolled == Unrolled(best_itinerary)
        total_co2 == SeqSum([k \in DOMAIN unrolled |-> unrolled[k].trip.TOTAL_CO2])
        travel_hours_list == [k \in DOMAIN unrolled |-> unrolled[k].trip.TOTAL_TRAVEL_HOURS]
        num_attendees == Len(unrolled)
        none_timed == ArrivalTimes(unrolled) = {} \/ DepartureTimes(unrolled) = {}
        span_start_time == IF none_timed THEN a.window_start ELSE SetMin(ArrivalTimes(unrolled))
        span_end_time == IF none_timed THEN a.window_end ELSE SetMax(DepartureTimes(unrolled))
        meeting_start_time == IF none_timed THEN a.window_start
                              ELSE SetMin(ArrivalTimes(unrolled))
        event_span_hours == IF none_timed THEN 0
                            ELSE ((span_end_time - span_start_time) * Scale) \div 60
        meeting_end_time == meeting_start_time + a.event_duration_hours * 60
        homes == { unrolled[k].home_city : k \in DOMAIN unrolled }
    IN [rank |-> rnk,
        event_location |-> city_code,
        phase_1_score |-> Round2(phase_1_score),
        event_dates |-> [start |-> isoformat(meeting_start_time),
                         end |-> isoformat(meeting_end_time)],
        event_span |-> [start |-> isoformat(span_start_time),
                        end |-> isoformat(span_end_time),
                        total_hours |-> Round2(event_span_hours)],
        total_co2_tonnes |-> Round2(total_co2),
        average_co2_per_person_tonnes |-> Round2(total_co2 \div num_attendees),
        average_travel_hours |-> Round2(Mean(travel_hours_list)),
        median_travel_hours |-> Round2(Median(travel_hours_list)),
        max_travel_hours |-> Round2(SetMax(Range(travel_hours_list))),
        min_travel_hours |-> Round2(SetMin(Range(travel_hours_list))),
        attendee_travel_hours |->
            [h \in homes |->
                Round2(Mean(SelectSeq([k \in DOMAIN unrolled |->
                                          IF unrolled[k].home_city = h
                                          THEN unrolled[k].trip.TOTAL_TRAVEL_HOURS
                                          ELSE None],
                                      LAMBDA x : x # None)))],
        itinerary |-> ItineraryList(best_itinerary)]

\* lines 349-439: the metrics of the chosen itinerary and the output object
OutputObject(city_code, rnk, phase_1_score, a, best_itinerary) ==
    LET unrolled == Unrolled(best_itinerary)
        total_co2 == SeqSum([k \in DOMAIN unrolled |-> unrolled[k].trip.TOTAL_CO2])
        travel_hours_list == [k \in DOMAIN unrolled |-> unrolled[k].trip.TOTAL_TRAVEL_HOURS]
        num_attendees == Len(unrolled)
        none_timed == ArrivalTimes(unrolled) = {} \/ DepartureTimes(unrolled) = {}
        span_start_time == IF none_timed THEN a.window_start ELSE SetMin(ArrivalTimes(unrolled))
        span_end_time == IF none_timed THEN a.window_end ELSE SetMax(DepartureTimes(unrolled))
        meeting_start_time == IF none_timed THEN a.window_start
                              ELSE SetMax(ArrivalTimes(unrolled))
        event_span_hours == IF none_timed THEN 0
                            ELSE ((span_end_time - span_start_time) * Scale) \div 60
        meeting_end_time == meeting_start_time + a.event_duration_hours * 60
        homes == { unrolled[k].home_city : k \in DOMAIN unrolled }
    IN [rank |-> rnk,
        event_location |-> city_code,
        phase_1_score |-> Round2(phase_1_score),
        event_dates |-> [start |-> isoformat(meeting_start_time),
                         end |-> isoformat(meeting_end_time)],
        event_span |-> [start |-> isoformat(span_start_time),
                        end |-> isoformat(span_end_time),
                        total_hours |-> Round2(event_span_hours)],
        total_co2_tonnes |-> Round2(total_co2),
        average_co2_per_person_tonnes |-> Round2(total_co2 \div num_attendees),
        average_travel_hours |-> Round2(Mean(travel_hours_list)),
        median_travel_hours |-> Round2(Median(travel_hours_list)),
        max_travel_hours |-> Round2(SetMax(Range(travel_hours_list))),
        min_travel_hours |-> Round2(SetMin(Range(travel_hours_list))),
        attendee_travel_hours |->
            [h \in homes |->
                Round2(Mean(SelectSeq([k \in DOMAIN unrolled |->
                                          IF unrolled[k].home_city = h
                                          THEN unrolled[k].trip.TOTAL_TRAVEL_HOURS
                                          ELSE None],
                                      LAMBDA x : x # None)))],
        itinerary |-> ItineraryList(best_itinerary)]

\* lines 345-439: None without an itinerary, the output object with one
FinalJson(city_code, rnk, phase_1_score, a, f, best_itinerary) ==
    IF best_itinerary = <<>>
    THEN [json |-> <<>>, best_itinerary |-> <<>>, cache |-> f.cache, calls |-> f.calls]
    ELSE [json |-> <<OutputObject(city_code, rnk, phase_1_score, a, best_itinerary)>>,
          best_itinerary |-> best_itinerary, cache |-> f.cache, calls |-> f.calls]

\* lines 315-347 once the trips have been fetched as f
AfterFetchTrips(city_code, rnk, phase_1_score, a, optimize_span, f) ==
    IF ~f.found
    THEN { [json |-> <<>>, best_itinerary |-> <<>>, cache |-> f.cache, calls |-> f.calls] }
    ELSE { FinalJson(city_code, rnk, phase_1_score, a, f, BestItinerary(o, optimize_span)) :
             o \in CityTripOptions(f.frames, IF optimize_span THEN 5 ELSE 1) }

get_final_json_for_city_span(cache, city_code, rnk, phase_1_score, a, optimize_span, ccf) ==
    AfterFetchTrips(city_code, rnk, phase_1_score, a, TRUE,
                    FetchTrips(a, city_code, ccf, 1, cache, <<>>, {}))

\* get_final_json_for_city called with the cache holding `cache`: every outcome
\* it can have. json is <<>> for None and <<the output object>> otherwise.
get_final_json_for_city(cache, city_code, rnk, phase_1_score, a, optimize_span, ccf) ==
    AfterFetchTrips(city_code, rnk, phase_1_score, a, optimize_span,
                    FetchTrips(a, city_code, ccf, 1, cache, <<>>, {}))

Phase2_stop_on_none ==
    /\ pc = "phase2"
    /\ rank <= Len(top_3_cities)
    /\ \E out \in get_final_json_for_city(ROUND_TRIP_CACHE, top_3_cities[rank].city, rank,
                      top_3_cities[rank].score, args, rank = 1,
                      args.consider_connecting_flights) :
         /\ ROUND_TRIP_CACHE' = out.cache
         /\ history' = history \cup Observe(out.calls)
         /\ legs' = legs \cup UNION { c.legs : c \in out.calls }
         /\ final_output_list' = final_output_list \o out.json
         /\ chosen' = IF out.json = <<>> THEN chosen
                      ELSE Append(chosen, [rank |-> rank, optimize_span |-> rank = 1,
                                           best_itinerary |-> out.best_itinerary])
         /\ IF rank = Len(top_3_cities) \/ out.json = <<>>
            THEN /\ pc' = "returned"
                 /\ ret' = [kind |-> "return", value |-> final_output_list']
            ELSE UNCHANGED <<pc, ret>>
    /\ rank' = rank + 1
    /\ steps' = Append(steps, "phase2")
    /\ UNCHANGED <<disk, schedules_lazy_df, COMPATIBILITY_MAP, args, cityOrder,
                   city_scores, top_3_cities>>

\* one iteration of the Phase-2 loop (lines 589-607), and the return of line
\* 609 after the last one
Phase2 ==
    /\ pc = "phase2"
    /\ rank <= Len(top_3_cities)
    /\ \E out \in get_final_json_for_city(ROUND_TRIP_CACHE, top_3_cities[rank].city, rank,
                      top_3_cities[rank].score, args, rank = 1,
                      args.consider_connecting_flights) :
         /\ ROUND_TRIP_CACHE' = out.cache
         /\ history' = history \cup Observe(out.calls)
         /\ legs' = legs \cup UNION { c.legs : c \in out.calls }
         /\ final_output_list' = final_output_list \o out.json
         /\ chosen' = IF out.json = <<>> THEN chosen
                      ELSE Append(chosen, [rank |-> rank, optimize_span |-> rank = 1,
                                           best_itinerary |-> out.best_itinerary])
    /\ rank' = rank + 1
    /\ steps' = Append(steps, "phase2")
    /\ IF rank = Len(top_3_cities)
       THEN /\ pc' = "returned"
            /\ ret' = [kind |-> "return", value |-> final_output_list']
       ELSE UNCHANGED <<pc, ret>>
    /\ UNCHANGED <<disk, schedules_lazy_df, COMPATIBILITY_MAP, args, cityOrder,
                   city_scores, top_3_cities>>

Next == find_best_meeting \/ Phase0 \/ Phase1 \/ Phase2

Spec == Init /\ [][Next]_vars

(***************************************************************************)
(* A call that has been entered runs to its end: find_best_meeting is      *)
(* straight-line code and loops over finite lists, so each of its steps is *)
(* taken once it is due.  Nothing obliges a further call to be made.       *)
(* This is weak fairness of RunStep, WF_vars(RunStep), written with the    *)
(* state predicate that ENABLED <<RunStep>>_vars equals: a step of the     *)
(* call is possible exactly while the call is running, and it changes      *)
(* `steps`.                                                                *)
(***************************************************************************)
RunStep == Phase0 \/ Phase1 \/ Phase2

Running == pc \in {"entered", "phase1", "phase2"}

WeakFairRunStep == []<>(~Running) \/ []<><<RunStep>>_vars

SpecLive == Init /\ [][Next]_vars /\ WeakFairRunStep

(***************************************************************************)
(* get_final_json_for_city on a single group with a single option.  The    *)
(* function reads the group's frame through get_all_valid_round_trips; the *)
(* frame is put under the call's cache key and holds one round trip whose  *)
(* first arrival and last departure are drawn from TimeChoices, None       *)
(* included.  The call is the one Phase 2 makes for rank 1, with           *)
(* optimize_span on.                                                       *)
(***************************************************************************)
TimeChoices == {None, 10 * 60, 18 * 60, MinutesPerDay + 60}

OneOption(arr, dep, co2, hours) ==
    [TOTAL_CO2 |-> co2, TOTAL_TRAVEL_HOURS |-> hours,
     first_arrival |-> arr, last_departure |-> dep,
     Outbound_Route |-> "Direct", Inbound_Route |-> "Direct",
     outbound_carrier |-> "BA", outbound_fltno |-> 304,
     outbound_dep_utc |-> 8 * 60, outbound_dep_apt |-> "LHR",
     outbound_arr_apt |-> "CDG",
     inbound_carrier |-> "AF", inbound_fltno |-> 1681,
     inbound_dep_utc |-> dep, inbound_dep_apt |-> "CDG",
     inbound_arr_apt |-> "LHR",
     rows |-> <<>>]

OneOptionArgs(h, c) ==
    Input(<<Group("London", h)>>, <<0, NumDays * MinutesPerDay - 1>>, 8, <<100, 0>>, c)

InitOneOption ==
    /\ disk = [d \in Days |-> 1]
    /\ schedules_lazy_df = {}
    /\ COMPATIBILITY_MAP = {}
    /\ \E h \in 1 .. MaxHead, c \in BOOLEAN, arr \in TimeChoices, dep \in TimeChoices,
          co2 \in {Scale \div 10, Scale \div 4}, hours \in {2 * Scale, 5 * Scale} :
         /\ dep = None \/ arr = None \/ dep >= arr
         /\ args = OneOptionArgs(h, c)
         /\ ROUND_TRIP_CACHE =
              (cache_key("LON", "PAR", args.window_start, args.window_end,
                         args.event_duration_hours, c)
                 :> {OneOption(arr, dep, co2, hours)})
         /\ city_scores = <<[city |-> "PAR", score |-> h * co2, total_co2 |-> h * co2]>>
    /\ pc = "phase2"
    /\ cityOrder = <<"PAR">>
    /\ top_3_cities = city_scores
    /\ rank = 1
    /\ final_output_list = <<>>
    /\ ret = NoResult
    /\ chosen = <<>>
    /\ history = {}
    /\ legs = {}
    /\ steps = <<"clear_cache", "validate_weights", "read_scenario", "list_schedule_files",
                 "load_schedules", "load_emissions", "build_compatibility_map",
                 "phase1", "top_3">>

NextOneOption == Phase2

SpecOneOption == InitOneOption /\ [][NextOneOption]_vars

(***************************************************************************)
(* Two requests in one process.  src/server/app.py calls find_best_meeting *)
(* per request on the module's globals; while the call followed above is   *)
(* between Phase 1 and the first iteration of its Phase-2 loop, another    *)
(* call with valid weights can run lines 446-500: it clears                *)
(* ROUND_TRIP_CACHE and, when its window has files, replaces               *)
(* schedules_lazy_df and COMPATIBILITY_MAP.  Threads can interleave at     *)
(* other points as well; this one is enough to reach every outcome of a    *)
(* Phase-2 iteration.                                                      *)
(***************************************************************************)
OtherCallLoads(w) ==
    /\ pc = "phase2" /\ rank = 1
    /\ ROUND_TRIP_CACHE' = ClearedCache
    /\ LET relevant_files ==
               get_schedule_files_for_window(w[1] \div MinutesPerDay,
                                             w[2] \div MinutesPerDay)
       IN IF relevant_files = {}
          THEN UNCHANGED <<schedules_lazy_df, COMPATIBILITY_MAP>>
          ELSE /\ schedules_lazy_df' = get_lazy_schedules(relevant_files)
               /\ COMPATIBILITY_MAP' = create_compatibility_map(schedules_lazy_df')
    /\ UNCHANGED <<disk, pc, args, cityOrder, city_scores, top_3_cities, rank,
                   final_output_list, ret, chosen, history, legs, steps>>

OtherCall == \E w \in WindowChoices : OtherCallLoads(w)

NextInterleaved == Next \/ OtherCall

SpecInterleaved == Init /\ [][NextInterleaved]_vars

(***************************************************************************)
(* Properties.                                                             *)
(***************************************************************************)
\* the run has loaded its frames and they are the ones of its arguments
Loaded == pc \in {"phase1", "phase2"} \/ (pc = "returned" /\ history # {})

\* the schedule row a leg was built from
RowAt(id) == CHOOSE r \in schedules_lazy_df : r.ROW = id

\* C1: every round trip get_all_valid_round_trips returned for origin #
\* destination, computed or served from the cache, has its inbound departure
\* strictly later than its outbound arrival plus the event duration.
C1_StrictGap ==
    \A h \in history :
        h.key[1] # h.key[2] =>
            \A t \in h.result :
                t.last_departure > t.first_arrival + h.key[5] * 60

\* a cached, non-empty answer for a pair of cities whose legs include an
\* inbound leg leaving exactly event_duration_hours after an outbound arrival
C1_Witness ==
    \E h \in history :
        /\ h.hit /\ h.key[1] # h.key[2] /\ h.result # {}
        /\ \E o, i \in legs :
             /\ o.from = h.key[1] /\ o.to = h.key[2]
             /\ i.from = h.key[2] /\ i.to = h.key[1]
             /\ i.leg.DEPART_TIME_UTC = o.leg.ARRIVE_TIME_UTC + h.key[5] * 60

\* the layover of a one-stop leg in minutes, from the two rows it joins
LayoverMinutes(l) == RowAt(l.rows[2]).DEPART_TIME_UTC - RowAt(l.rows[1]).ARRIVE_TIME_UTC

\* C2: every leg tagged "1-Stop" that find_flights returned has a layover
\* strictly between 1.5 hours and 8 hours.
C2_LayoverOpenInterval ==
    Loaded =>
        \A l \in legs :
            l.leg.Route_Type = "1-Stop" =>
                /\ LayoverMinutes(l.leg) > 90
                /\ LayoverMinutes(l.leg) < 480

\* find_flights returned a one-stop leg for a pair of cities for which the
\* frame also holds connections with layovers of exactly 1.5 h and exactly 8 h
C2_Witness ==
    /\ Loaded
    /\ \E l \in legs :
         /\ l.leg.Route_Type = "1-Stop"
         /\ \A m \in {90, 480} :
              \E r1, r2 \in schedules_lazy_df :
                 /\ r1.DEPCITY = l.from /\ r2.ARRCITY = l.to
                 /\ r1.STOPS = 0 /\ r2.STOPS = 0
                 /\ r1.ARRAPT = r2.DEPAPT
                 /\ r1.DEPART_TIME_UTC >= args.window_start
                 /\ r2.ARRIVE_TIME_UTC <= args.window_end
                 /\ JoinEmissions({r1}) # {} /\ JoinEmissions({r2}) # {}
                 /\ r2.DEPART_TIME_UTC - r1.ARRIVE_TIME_UTC = m

\* the (home, city) pairs for which the pre-filter of the running call
\* rejects city: home is known, differs from city, and a direction is missing
PreFilterRejections ==
    { <<CityCode(args.attendees[i].home_city), c>> :
        <<i, c>> \in { q \in (DOMAIN args.attendees)
                              \X potential_meeting_cities(schedules_lazy_df, args.attendees) :
                         /\ CityCode(args.attendees[q[1]].home_city) # NoneStr
                         /\ CityCode(args.attendees[q[1]].home_city) # q[2]
                         /\ ~PreFilter(COMPATIBILITY_MAP, <<args.attendees[q[1]]>>, q[2]) } }

\* C3: when the pre-filter rejects a city for a home, no round trip over
\* direct legs exists between them on the loaded schedule, whatever the
\* window and the event duration.
C3_PreFilterSoundDirect ==
    pc = "phase1" =>
        \A p \in PreFilterRejections :
            \A w \in WindowChoices, d \in DurationChoices :
                compute_round_trips(p[1], p[2], w[1], w[2], d, FALSE).result = {}

\* a city is rejected for a home although one direction has direct flights
C3_Witness ==
    /\ pc = "phase1"
    /\ \E p \in PreFilterRejections :
         <<p[1], p[2]>> \in COMPATIBILITY_MAP \/ <<p[2], p[1]>> \in COMPATIBILITY_MAP

\* C4 as claimed: when the pre-filter rejects a city for a home, no round
\* trip exists between them under the run's include_connecting value.
C4_AbsenceProvesInfeasible ==
    pc = "phase1" =>
        \A p \in PreFilterRejections :
            compute_round_trips(p[1], p[2], args.window_start, args.window_end,
                                args.event_duration_hours,
                                args.consider_connecting_flights).result = {}

\* C5: for origin = destination get_all_valid_round_trips returns exactly one
\* option: zero CO2, zero travel hours, no arrival or departure, "Local" on
\* both legs and no ticket detail.
C5_LocalOption ==
    \A h \in history :
        h.key[1] = h.key[2] =>
            /\ Cardinality(h.result) = 1
            /\ \A t \in h.result :
                 /\ t.TOTAL_CO2 = 0 /\ t.TOTAL_TRAVEL_HOURS = 0
                 /\ t.first_arrival = None /\ t.last_departure = None
                 /\ t.Outbound_Route = "Local" /\ t.Inbound_Route = "Local"
                 /\ t.outbound_carrier = NoneStr /\ t.outbound_fltno = None
                 /\ t.outbound_dep_utc = None /\ t.outbound_dep_apt = NoneStr
                 /\ t.outbound_arr_apt = NoneStr
                 /\ t.inbound_carrier = NoneStr /\ t.inbound_fltno = None
                 /\ t.inbound_dep_utc = None /\ t.inbound_dep_apt = NoneStr
                 /\ t.inbound_arr_apt = NoneStr

\* the local option was returned, computed and from the cache, with connecting
\* flights allowed, while the schedule holds flights leaving that very city
C5_Witness ==
    /\ \E h1, h2 \in history :
         /\ h1.key = h2.key /\ h1.key[1] = h1.key[2]
         /\ h1.hit /\ ~h2.hit /\ h1.key[6]
         /\ \E r \in schedules_lazy_df : r.DEPCITY = h1.key[1]


\* C6: within one run, calls with the same six-part key get the same answer,
\* every answer is the one the computation gives on the tables the run
\* loaded, and every answer served from the cache was computed earlier in the
\* same run: the run starts with an empty cache.
C6_CachePerRun ==
    /\ pc = "entered" => ROUND_TRIP_CACHE = EmptyCache
    /\ \A h1, h2 \in history : h1.key = h2.key => h1.result = h2.result
    /\ \A h \in history :
         h.hit => \E m \in history : ~m.hit /\ m.key = h.key
    /\ pc = "returned" =>
         \A h \in history :
             /\ h.key[3] = isoformat(args.window_start)
             /\ h.key[4] = isoformat(args.window_end)
             /\ h.result = compute_round_trips(h.key[1], h.key[2], args.window_start,
                                               args.window_end, h.key[5], h.key[6]).result

\* a run has returned after being served a non-empty answer from its cache
C6_Witness ==
    /\ pc = "returned"
    /\ \E h1, h2 \in history :
         /\ h1.key = h2.key /\ h1.hit /\ ~h2.hit
         /\ h1.key[1] # h1.key[2] /\ h1.result # {}

\* the city_scores list Phase 1 builds for the running call's arguments with
\* consider_connecting_flights set to ccf, from an empty cache
ScoresWith(ccf) ==
    LET a == [args EXCEPT !.consider_connecting_flights = ccf]
        order == CHOOSE o \in Perms(potential_meeting_cities(schedules_lazy_df, a.attendees)) : TRUE
    IN ScoreAll(a, COMPATIBILITY_MAP,
                [cache |-> EmptyCache, calls |-> {}, city_scores |-> <<>>], order).city_scores

SurvivorsWith(ccf) == { e.city : e \in Range(ScoresWith(ccf)) }

\* C7: the cities that survive Phase 1 of a run with
\* consider_connecting_flights = false also survive it with the flag true,
\* everything else being equal.
C7_DirectOnlySurvivorsSubset ==
    (pc = "phase2" /\ rank = 1 /\ ~args.consider_connecting_flights) =>
        Range(cityOrder) \subseteq SurvivorsWith(TRUE)

\* a direct-only run scored some city, and a city it did not score survives
\* when connecting flights are allowed
C7_Witness ==
    /\ pc = "phase2" /\ rank = 1 /\ ~args.consider_connecting_flights
    /\ cityOrder # <<>>
    /\ SurvivorsWith(TRUE) \ Range(cityOrder) # {}

\* total_co2_tonnes of every object get_final_json_for_city can build for the
\* city and rank of record rec with consider_connecting_flights set to ccf
Phase2TotalsWith(rec, ccf) ==
    { o.json[1].total_co2_tonnes :
        o \in { x \in get_final_json_for_city(EmptyCache, rec.event_location, rec.rank,
                         0, [args EXCEPT !.consider_connecting_flights = ccf],
                         rec.rank = 1, ccf) : x.json # <<>> } }

\* the record the last Phase-2 iteration appended
LastRecord == final_output_list[Len(final_output_list)]

\* rec, built by the running call, against the other setting of the flag
NotLowerDirectOnly(rec) ==
    IF args.consider_connecting_flights
    THEN \A x \in Phase2TotalsWith(rec, FALSE) : x >= rec.total_co2_tonnes
    ELSE \A y \in Phase2TotalsWith(rec, TRUE) : rec.total_co2_tonnes >= y

\* Phase 1: the total CO2 of a city feasible under both settings
C8_Phase1Part ==
    (pc = "phase2" /\ rank = 1) =>
        \A e \in Range(ScoresWith(FALSE)), e2 \in Range(ScoresWith(TRUE)) :
            e.city = e2.city => e.total_co2 >= e2.total_co2

\* Phase 2, rank 1: the itinerary of least event span
C8_SpanOptimisedPart ==
    (final_output_list # <<>> /\ LastRecord.rank = 1) => NotLowerDirectOnly(LastRecord)

\* C8 as claimed: for a city feasible under both settings, neither the Phase-1
\* total CO2 nor total_co2_tonnes of the Phase-2 itinerary, the span-optimised
\* one of rank 1 included, is lower with consider_connecting_flights = false
\* than with true.
C8_NeverLowerDirectOnly ==
    /\ C8_Phase1Part
    /\ C8_SpanOptimisedPart
    /\ (final_output_list # <<>> /\ LastRecord.rank > 1) => NotLowerDirectOnly(LastRecord)

\* C8, amended: for a city feasible under both settings, total_co2_tonnes of
\* the lowest-CO2 itinerary (optimize_span = False, ranks 2 and 3) is not
\* lower with consider_connecting_flights = false than with true.
C8_LowestCO2NotLowerDirectOnly ==
    (final_output_list # <<>> /\ LastRecord.rank > 1) => NotLowerDirectOnly(LastRecord)

\* a record of rank 2 or 3 whose city is feasible under the other setting too
\* and whose round trips include one-stop legs when they are allowed
C8_Witness ==
    /\ final_output_list # <<>> /\ LastRecord.rank > 1
    /\ Phase2TotalsWith(LastRecord, ~args.consider_connecting_flights) # {}
    /\ \E h \in history :
         /\ h.key[2] = LastRecord.event_location
         /\ \E t \in h.result : t.Outbound_Route = "1-Stop" \/ t.Inbound_Route = "1-Stop"

\* Phase-1 score of a scored city, and its place in the iteration
ScoreOf(c) == (CHOOSE e \in Range(city_scores) : e.city = c).score
PlaceOf(c) == CHOOSE i \in DOMAIN cityOrder : cityOrder[i] = c

\* c1 comes before c2: lower score, or equal score and iterated earlier
ComesBefore(c1, c2) ==
    \/ ScoreOf(c1) < ScoreOf(c2)
    \/ (ScoreOf(c1) = ScoreOf(c2) /\ PlaceOf(c1) < PlaceOf(c2))

Succeeded == pc = "returned" /\ ret.kind = "return" /\ cityOrder # <<>>

\* C9: a successful run returns at most three results, for the lowest-scoring
\* cities, in ascending score, equal scores in the order of iteration.
C9_TopThreeAscendingStable ==
    Succeeded =>
        /\ Len(ret.value) <= 3
        /\ \A k \in DOMAIN ret.value :
             /\ ret.value[k].event_location \in Range(cityOrder)
             /\ ret.value[k].rank <= 3
             /\ ret.value[k].rank
                  = 1 + Cardinality({ c \in Range(cityOrder) :
                                        ComesBefore(c, ret.value[k].event_location) })
             /\ ret.value[k].phase_1_score = Round2(ScoreOf(ret.value[k].event_location))
        /\ \A j, k \in DOMAIN ret.value :
             j < k => ComesBefore(ret.value[j].event_location, ret.value[k].event_location)

\* three results were returned, two of them for cities of equal score
C9_Witness ==
    /\ Succeeded
    /\ Len(ret.value) = 3
    /\ \E j, k \in DOMAIN ret.value :
         /\ j < k
         /\ ScoreOf(ret.value[j].event_location) = ScoreOf(ret.value[k].event_location)

\* the city an airport of the loaded schedule serves
CityOfAirport(apt) ==
    CHOOSE c \in { r.DEPCITY : r \in schedules_lazy_df } \cup { r.ARRCITY : r \in schedules_lazy_df } :
        \E r \in schedules_lazy_df :
            (r.DEPAPT = apt /\ r.DEPCITY = c) \/ (r.ARRAPT = apt /\ r.ARRCITY = c)

\* the entries of itinerary `it` for direction dir from city `from` to city `to`
Tickets(it, dir, from, to) ==
    { k \in DOMAIN it :
        /\ it[k][7] = dir
        /\ CityOfAirport(it[k][1]) = from
        /\ CityOfAirport(it[k][2]) = to }

\* C10: in the itinerary of a returned result, every attendee group whose
\* home differs from the chosen city has exactly one "out" and one "in" entry,
\* each with the group's headcount; a group whose home is the chosen city has
\* no entry.
C10_ItineraryPerGroup ==
    Succeeded =>
        \A n \in DOMAIN ret.value :
            LET rec == ret.value[n]
                it == rec.itinerary
                travelling == { i \in DOMAIN args.attendees :
                                  CityCode(args.attendees[i].home_city) # rec.event_location }
            IN /\ Len(it) = 2 * Cardinality(travelling)
               /\ \A i \in travelling :
                    LET g == args.attendees[i]
                        out == Tickets(it, "out", CityCode(g.home_city), rec.event_location)
                        in == Tickets(it, "in", rec.event_location, CityCode(g.home_city))
                    IN /\ Cardinality(out) = 1 /\ Cardinality(in) = 1
                       /\ \A k \in out \cup in : it[k][6] = g.attendee_count
               /\ \A k \in DOMAIN it :
                    CityOfAirport(it[k][1]) # CityOfAirport(it[k][2])

\* a returned result for the home city of one group, with a one-stop ticket
\* for another group of more than one attendee
C10_Witness ==
    /\ Succeeded
    /\ \E n \in DOMAIN ret.value :
         /\ \E i \in DOMAIN args.attendees :
              CityCode(args.attendees[i].home_city) = ret.value[n].event_location
         /\ \E k \in DOMAIN ret.value[n].itinerary :
              /\ ret.value[n].itinerary[k][6] > 1
              /\ ret.value[n].itinerary[k][8] = "1-Stop"

\* C11: a call with weight_co2 or weight_avg_vs_std outside [0, 1] raises
\* ValueError having done nothing but clear the cache and compare the
\* weights: the scenario is not read, no table is loaded and the
\* compatibility map is not built; weights inside [0, 1], 0 and 1 included,
\* never raise.
C11_InvalidWeightsRaiseFirst ==
    [][pc = "entered" =>
         IF \/ args'.weight_co2 < 0 \/ args'.weight_co2 > 100
            \/ args'.weight_avg_vs_std < 0 \/ args'.weight_avg_vs_std > 100
         THEN /\ ret' = [kind |-> "raise", value |-> <<"ValueError">>]
              /\ pc' = "returned"
              /\ steps' = <<"clear_cache", "validate_weights">>
              /\ args'.attendees = <<>>
              /\ UNCHANGED <<schedules_lazy_df, COMPATIBILITY_MAP, ROUND_TRIP_CACHE,
                             history, legs>>
         ELSE /\ ret'.kind # "raise"
              /\ Len(steps') > 2]_vars

\* a call has raised on a bad weight after an earlier call had loaded tables
C11_Witness ==
    /\ ret.kind = "raise"
    /\ args.weight_co2 > 100 \/ args.weight_avg_vs_std < 0
    /\ schedules_lazy_df # {}

\* a call with the weights 0 and 1 went on to read the scenario
C11_WitnessBoundary ==
    /\ pc = "phase1"
    /\ {args.weight_co2, args.weight_avg_vs_std} = {0, 100}

\* the days of the availability window of arguments a
WindowDays(a) == (a.window_start \div MinutesPerDay) .. (a.window_end \div MinutesPerDay)

NoFilesError ==
    [kind |-> "return",
     value |-> <<[error |-> "No schedule files found for the specified availability window."]>>]

\* C12: when no day of the availability window has a schedule file, the call
\* returns the single error record "No schedule files found for the specified
\* availability window." and does not raise; it has not loaded a table, built
\* the compatibility map or run Phase 1 or Phase 2.
C12_NoFilesErrorRecord ==
    [][(/\ pc = "entered"
        /\ ret'.kind # "raise"
        /\ \A d \in WindowDays(args') : d \notin DOMAIN disk \/ disk[d] = 0) =>
         /\ ret' = NoFilesError
         /\ Len(ret'.value) = 1
         /\ pc' = "returned"
         /\ steps' = <<"clear_cache", "validate_weights", "read_scenario",
                       "list_schedule_files">>
         /\ final_output_list' = <<>> /\ city_scores' = <<>>
         /\ UNCHANGED <<schedules_lazy_df, COMPATIBILITY_MAP, ROUND_TRIP_CACHE,
                        history, legs>>]_vars

\* the error record was returned for a window without files although the
\* directory holds files, after an earlier call had loaded tables
C12_Witness ==
    /\ ret = NoFilesError
    /\ schedules_lazy_df # {}
    /\ \E d \in Days : disk[d] # 0

NoValidError ==
    [kind |-> "return", value |-> <<[error |-> "No valid meeting locations found."]>>]

\* city c is rejected for the loaded call: the pre-filter fails for a group,
\* or a group has no valid round trip to it
Rejected(c) ==
    \/ ~PreFilter(COMPATIBILITY_MAP, args.attendees, c)
    \/ \E i \in DOMAIN args.attendees :
         compute_round_trips(CityCode(args.attendees[i].home_city), c,
                             args.window_start, args.window_end,
                             args.event_duration_hours,
                             args.consider_connecting_flights).result = {}

\* C13: when every candidate city is rejected in Phase 1, by the pre-filter
\* or for want of a round trip of some group, the call returns the error
\* record "No valid meeting locations found."; it does not raise and does not
\* run Phase 2.
C13_NoValidLocationError ==
    [][(/\ pc = "phase1"
        /\ \A c \in potential_meeting_cities(schedules_lazy_df, args.attendees) :
             Rejected(c)) =>
         /\ ret' = NoValidError
         /\ pc' = "returned"
         /\ final_output_list' = <<>> /\ top_3_cities' = <<>>
         /\ \A k \in DOMAIN steps' : steps'[k] # "phase2"]_vars

\* the error was returned after a city had passed the pre-filter and a group
\* had then no round trip to it, and another city had failed the pre-filter
C13_Witness ==
    /\ ret = NoValidError
    /\ \E h \in history : h.result = {}
    /\ \E c \in potential_meeting_cities(schedules_lazy_df, args.attendees) :
         ~PreFilter(COMPATIBILITY_MAP, args.attendees, c)

\* some group with a known home has no round trip to city c, as
\* get_all_valid_round_trips answers now
NoOption(c) ==
    \E i \in DOMAIN args.attendees :
        /\ CityCode(args.attendees[i].home_city) # NoneStr
        /\ get_all_valid_round_trips(ROUND_TRIP_CACHE,
               CityCode(args.attendees[i].home_city), c, args.window_start,
               args.window_end, args.event_duration_hours,
               args.consider_connecting_flights).result = {}

\* C14: a Phase-2 iteration for a city to which some group has no round trip
\* adds nothing to the output; any other iteration adds a record carrying the
\* loop index as rank and the city of that place in top_3_cities; either way
\* the loop goes on to the next city, or returns the list after the last, and
\* never raises.
C14_FailedCityDropped ==
    [][(pc = "phase2" /\ steps' # steps) =>
         /\ IF NoOption(top_3_cities[rank].city)
            THEN final_output_list' = final_output_list
            ELSE /\ Len(final_output_list') = Len(final_output_list) + 1
                 /\ SubSeq(final_output_list', 1, Len(final_output_list)) = final_output_list
                 /\ final_output_list'[Len(final_output_list')].rank = rank
                 /\ final_output_list'[Len(final_output_list')].event_location
                      = top_3_cities[rank].city
         /\ rank' = rank + 1
         /\ IF rank < Len(top_3_cities)
            THEN pc' = "phase2" /\ UNCHANGED ret
            ELSE pc' = "returned"
                 /\ ret' = [kind |-> "return", value |-> final_output_list']]_vars

\* a call returned fewer records than it had top cities, the first of them
\* with a rank above 1
C14_Witness ==
    /\ pc = "returned" /\ ret.kind = "return"
    /\ top_3_cities # <<>>
    /\ ret.value # <<>>
    /\ Len(ret.value) < Len(top_3_cities)
    /\ ret.value[1].rank > 1

\* the round trips of attendee group i to city c, from the loaded tables
TripsOfGroup(i, c) ==
    get_all_valid_round_trips(EmptyCache, CityCode(args.attendees[i].home_city), c,
        args.window_start, args.window_end, args.event_duration_hours,
        args.consider_connecting_flights).result

GroupMeanCO2(i, c) ==
    SumFn([t \in TripsOfGroup(i, c) |-> t.TOTAL_CO2]) \div Cardinality(TripsOfGroup(i, c))

GroupMeanHours(i, c) ==
    SumFn([t \in TripsOfGroup(i, c) |-> t.TOTAL_TRAVEL_HOURS])
        \div Cardinality(TripsOfGroup(i, c))

Heads == SeqSum([i \in DOMAIN args.attendees |-> args.attendees[i].attendee_count])

\* the sum of the groups' mean CO2, each counted once per head
TotalCO2Of(c) ==
    SeqSum([i \in DOMAIN args.attendees |->
               args.attendees[i].attendee_count * GroupMeanCO2(i, c)])

\* mean and sample standard deviation of the groups' mean travel hours, each
\* counted once per head; the deviation is 0 for fewer than two heads
MeanHoursOf(c) ==
    SeqSum([i \in DOMAIN args.attendees |->
               args.attendees[i].attendee_count * GroupMeanHours(i, c)]) \div Heads

StdevHoursOf(c) ==
    IF Heads < 2 THEN 0
    ELSE ISqrt(SeqSum([i \in DOMAIN args.attendees |->
                 args.attendees[i].attendee_count
                   * ((GroupMeanHours(i, c) - MeanHoursOf(c)) \div 10)
                   * ((GroupMeanHours(i, c) - MeanHoursOf(c)) \div 10)])
               \div (Heads - 1)) * 10

FairnessOf(c) ==
    (args.weight_avg_vs_std * MeanHoursOf(c)
       + (100 - args.weight_avg_vs_std) * StdevHoursOf(c)) \div 100

\* the samples Phase 1 collects for city c
SamplesOf(c) == ScoreLoop(args, c, 1, EmptyCache, <<>>, {}).samples

\* the same samples with d more CO2 in the first of them
MoreCO2(samples, d) == [samples EXCEPT ![1].avg_co2 = @ + d]

\* C15: the Phase-1 score of a surviving city is
\* weightCO2 * totalCO2 + (1 - weightCO2) * (weightAvgVsStd * mean + (1 -
\* weightAvgVsStd) * stdev) over per-head samples of the groups' means, stdev
\* being 0 with fewer than two heads; more CO2 with the same travel hours
\* never lowers it; with weightCO2 = 1.0 it is totalCO2.
C15_Phase1ScoreFormula ==
    (pc = "phase2" /\ rank = 1) =>
        \A e \in Range(city_scores) :
            /\ e.total_co2 = TotalCO2Of(e.city)
            /\ e.score = (args.weight_co2 * TotalCO2Of(e.city)
                            + (100 - args.weight_co2) * FairnessOf(e.city)) \div 100
            /\ args.weight_co2 = 100 => e.score = TotalCO2Of(e.city)
            /\ \A d \in {1, Scale} :
                 TotalScore(MoreCO2(SamplesOf(e.city), d), args.weight_co2,
                            args.weight_avg_vs_std) >= e.score

\* a city was scored for two groups of different mean travel hours, three
\* heads in all, with both weights strictly between 0 and 1
C15_Witness ==
    /\ pc = "phase2" /\ rank = 1
    /\ args.weight_co2 = 50 /\ args.weight_avg_vs_std = 50
    /\ Heads = 3
    /\ \E e \in Range(city_scores) :
         /\ StdevHoursOf(e.city) > 0
         /\ TotalCO2Of(e.city) > 0
         /\ e.score # TotalCO2Of(e.city)

\* a city was scored with weightCO2 = 1.0 and a positive fairness term
C15_WitnessAllCO2 ==
    /\ pc = "phase2" /\ rank = 1
    /\ args.weight_co2 = 100
    /\ \E e \in Range(city_scores) : FairnessOf(e.city) > 0 /\ e.score > 0

\* the only round trip of the only group, as the cache holds it
TheOption ==
    CHOOSE t \in ROUND_TRIP_CACHE[cache_key(CityCode(args.attendees[1].home_city),
                     top_3_cities[1].city, args.window_start, args.window_end,
                     args.event_duration_hours, args.consider_connecting_flights)] : TRUE

\* C16: with optimize_span on, one attendee group and one round-trip option,
\* get_final_json_for_city returns an object whose itinerary is that option,
\* and event_span.total_hours is 0 when the option's first arrival and last
\* departure are both not None and equal.
C16_SingleOptionItinerary ==
    pc = "returned" =>
        /\ ret.kind = "return"
        /\ Len(ret.value) = 1
        /\ Len(chosen) = 1
        /\ chosen[1].optimize_span
        /\ Len(chosen[1].best_itinerary) = 1
        /\ chosen[1].best_itinerary[1].trip = TheOption
        /\ chosen[1].best_itinerary[1].attendee_count = args.attendees[1].attendee_count
        /\ ret.value[1].attendee_travel_hours[args.attendees[1].home_city]
             = Round2(TheOption.TOTAL_TRAVEL_HOURS)
        /\ (TheOption.first_arrival # None /\ TheOption.last_departure # None
              /\ TheOption.first_arrival = TheOption.last_departure)
             => ret.value[1].event_span.total_hours = 0

\* an object was returned for an option arriving and leaving at the same instant
C16_Witness ==
    /\ pc = "returned"
    /\ Len(ret.value) = 1
    /\ TheOption.first_arrival # None
    /\ TheOption.first_arrival = TheOption.last_departure
    /\ ret.value[1].event_span.total_hours = 0

\* schedule rows r1, r2 form a connection as C17 describes it: both direct
\* with an emission factor, r1 leaving at or after the window's start, r2
\* arriving at or before its end, meeting at one airport with a layover
\* strictly between 1.5 and 8 hours
ConnectingPair(r1, r2) ==
    /\ r1.STOPS = 0 /\ r2.STOPS = 0
    /\ JoinEmissions({r1}) # {} /\ JoinEmissions({r2}) # {}
    /\ r1.DEPART_TIME_UTC # None /\ r1.ARRIVE_TIME_UTC # None
    /\ r2.DEPART_TIME_UTC # None /\ r2.ARRIVE_TIME_UTC # None
    /\ r1.DEPART_TIME_UTC >= args.window_start
    /\ r2.ARRIVE_TIME_UTC <= args.window_end
    /\ r1.ARRAPT = r2.DEPAPT
    /\ r2.DEPART_TIME_UTC - r1.ARRIVE_TIME_UTC > 90
    /\ r2.DEPART_TIME_UTC - r1.ARRIVE_TIME_UTC < 480

\* C17: with include_connecting = true, find_flights returns a "1-Stop" leg
\* for every pair of direct legs with emission factors that meet at one
\* airport inside the window with a layover strictly between 1.5 and 8 hours.
C17_OneStopComplete ==
    (Loaded /\ args.consider_connecting_flights) =>
        \A r1, r2 \in schedules_lazy_df :
            ConnectingPair(r1, r2) =>
                \E l \in find_flights(r1.DEPCITY, r2.ARRCITY, args.window_start,
                                      args.window_end, TRUE) :
                    l.Route_Type = "1-Stop" /\ l.rows = <<r1.ROW, r2.ROW>>

\* C18: every "1-Stop" leg find_flights returned has LEG_CO2 equal to the sum
\* of its two segments' CO2 per person, LEG_TRAVEL_HOURS equal to the sum of
\* their travel hours plus the exact layover (second departure minus first
\* arrival, fractions of an hour included), the first segment's departure and
\* the second segment's arrival.
C18_OneStopTotals ==
    Loaded =>
        \A l \in legs :
            l.leg.Route_Type = "1-Stop" =>
                LET r1 == RowAt(l.leg.rows[1])
                    r2 == RowAt(l.leg.rows[2])
                IN /\ \E j1 \in JoinEmissions({r1}), j2 \in JoinEmissions({r2}) :
                        l.leg.LEG_CO2 = j1.CO2_PER_PERSON_TONNES + j2.CO2_PER_PERSON_TONNES
                   /\ l.leg.LEG_TRAVEL_HOURS
                        = r1.TRAVEL_HOURS + r2.TRAVEL_HOURS
                            + (LayoverMinutes(l.leg) * Scale) \div 60
                   /\ l.leg.DEPART_TIME_UTC = r1.DEPART_TIME_UTC
                   /\ l.leg.ARRIVE_TIME_UTC = r2.ARRIVE_TIME_UTC

\* get_all_valid_round_trips called now, on the cache as it is, with the
\* arguments of cache entry k except include_connecting, which is given as flag
CallLike(k, flag) ==
    get_all_valid_round_trips(ROUND_TRIP_CACHE, k[1], k[2], args.window_start,
                              args.window_end, k[5], flag)

DirectOnly(trips) ==
    \A t \in trips : /\ t.Outbound_Route \in {"Direct", "Local"}
                     /\ t.Inbound_Route \in {"Direct", "Local"}

\* C19: with include_connecting = false find_flights and
\* get_all_valid_round_trips return only "Direct" legs, also when the same
\* arguments with include_connecting = true are in the cache, and the other
\* way round: a call never gets the entry stored under the other flag value.
C19_FlagInCacheKey ==
    Loaded =>
        /\ ~args.consider_connecting_flights =>
              /\ \A l \in legs : l.leg.Route_Type = "Direct"
              /\ \A h \in history : DirectOnly(h.result)
        /\ \A k \in DOMAIN ROUND_TRIP_CACHE :
              /\ k[6] = args.consider_connecting_flights
              /\ ~CallLike(k, ~k[6]).hit
              /\ CallLike(k, ~k[6]).key # k
              /\ CallLike(k, ~k[6]).result
                   = compute_round_trips(k[1], k[2], args.window_start, args.window_end,
                                         k[5], ~k[6]).result
              /\ k[6] => DirectOnly(CallLike(k, FALSE).result)

\* the cache holds, under include_connecting = true, round trips with a
\* one-stop leg for a pair of cities, and the same call with the flag false
\* returns round trips, none of them with a one-stop leg
C19_Witness ==
    /\ Loaded
    /\ \E k \in DOMAIN ROUND_TRIP_CACHE :
         /\ k[6]
         /\ ~DirectOnly(ROUND_TRIP_CACHE[k])
         /\ CallLike(k, FALSE).result # {}
         /\ DirectOnly(CallLike(k, FALSE).result)

\* the other way round: direct-only round trips are cached, and the same call
\* with the flag true returns one with a one-stop leg
C19_WitnessViceVersa ==
    /\ Loaded
    /\ \E k \in DOMAIN ROUND_TRIP_CACHE :
         /\ ~k[6]
         /\ ROUND_TRIP_CACHE[k] # {}
         /\ ~DirectOnly(CallLike(k, TRUE).result)

\* the legs find_flights returned from city a to city b
LegsBetween(a, b) == { l.leg : l \in { m \in legs : m.from = a /\ m.to = b } }

\* round trip t is made of outbound leg o and inbound leg i
MadeOf(t, o, i) ==
    /\ t.rows = <<o.rows, i.rows>>
    /\ t.TOTAL_CO2 = o.LEG_CO2 + i.LEG_CO2
    /\ t.TOTAL_TRAVEL_HOURS = o.LEG_TRAVEL_HOURS + i.LEG_TRAVEL_HOURS
    /\ t.first_arrival = o.ARRIVE_TIME_UTC
    /\ t.last_departure = i.DEPART_TIME_UTC

\* inbound leg i leaves later than outbound leg o arrives plus dur hours
LeavesAfterEvent(o, i, dur) == i.DEPART_TIME_UTC > o.ARRIVE_TIME_UTC + dur * 60

\* C20: for origin # destination get_all_valid_round_trips returns one round
\* trip for each pair of a leg of find_flights(origin, destination) and a leg
\* of find_flights(destination, origin) whose inbound departure is later than
\* the outbound arrival plus the event duration, and nothing else; its totals
\* are the sums over the two legs, first_arrival the outbound arrival and
\* last_departure the inbound departure.
C20_ExactRoundTrips ==
    \A h \in history :
        h.key[1] # h.key[2] =>
            /\ \A t \in h.result :
                 \E o \in LegsBetween(h.key[1], h.key[2]),
                    i \in LegsBetween(h.key[2], h.key[1]) :
                     MadeOf(t, o, i) /\ LeavesAfterEvent(o, i, h.key[5])
            /\ \A o \in LegsBetween(h.key[1], h.key[2]),
                  i \in LegsBetween(h.key[2], h.key[1]) :
                 LeavesAfterEvent(o, i, h.key[5]) =>
                     \E t \in h.result : MadeOf(t, o, i)
            /\ Cardinality(h.result)
                 = Cardinality({ p \in LegsBetween(h.key[1], h.key[2])
                                         \X LegsBetween(h.key[2], h.key[1]) :
                                   LeavesAfterEvent(p[1], p[2], h.key[5]) })

\* a call returned several round trips of different CO2 for a pair of cities,
\* a one-stop leg among them, while another pair of its legs was left out for
\* leaving too early
C20_Witness ==
    \E h \in history :
        /\ h.key[1] # h.key[2]
        /\ \E t, u \in h.result :
             t.TOTAL_CO2 # u.TOTAL_CO2 /\ t.Outbound_Route = "1-Stop"
        /\ \E o \in LegsBetween(h.key[1], h.key[2]),
              i \in LegsBetween(h.key[2], h.key[1]) :
             ~LeavesAfterEvent(o, i, h.key[5])

\* heads of the groups before group i, and the group of the k-th head
HeadsBefore(i) ==
    SeqSum([j \in 1 .. (i - 1) |-> args.attendees[j].attendee_count])
GroupOfHead(k) ==
    CHOOSE i \in DOMAIN args.attendees :
        HeadsBefore(i) < k /\ k <= HeadsBefore(i) + args.attendees[i].attendee_count

\* Phase 1 of the running call has just ended
Phase1Done == steps # <<>> /\ steps[Len(steps)] \in {"phase1", "top_3"}

\* the k-th of samples is the mean of group i's round trips to c
SampleIsMean(samples, k, i, c) ==
    /\ samples[k].home_city = args.attendees[i].home_city
    /\ samples[k].avg_co2 = GroupMeanCO2(i, c)
    /\ samples[k].avg_travel = GroupMeanHours(i, c)

SamplesAreMeans(samples, c) ==
    /\ Len(samples) = Heads
    /\ \A k \in 1 .. Heads : SampleIsMean(samples, k, GroupOfHead(k), c)

\* C21: in a scenario with attendee groups, a city that passed the pre-filter
\* is scored in Phase 1 exactly when every group has a round trip to it; for
\* a scored city there is one sample per head, holding the mean CO2 and the
\* mean travel hours over all round trips of the head's group.
C21_ScoredIffEveryGroupHasTrip ==
    Phase1Done =>
        \A c \in potential_meeting_cities(schedules_lazy_df, args.attendees) :
            PreFilter(COMPATIBILITY_MAP, args.attendees, c) =>
                /\ (c \in Range(cityOrder))
                     <=> (\A i \in DOMAIN args.attendees : TripsOfGroup(i, c) # {})
                /\ c \in Range(cityOrder) =>
                     /\ SamplesAreMeans(SamplesOf(c), c)
                     /\ \E e \in Range(city_scores) :
                          e.city = c /\ e.total_co2 = TotalCO2Of(c)

\* Phase 1 ended having scored a city for a group of two heads whose round
\* trips differ in CO2, the mean above the least, and having left out a city
\* that passed the pre-filter because a group had no round trip to it
C21_Witness ==
    /\ Phase1Done
    /\ \E c \in Range(cityOrder), i \in DOMAIN args.attendees :
         /\ args.attendees[i].attendee_count = 2
         /\ \E t \in TripsOfGroup(i, c) : t.TOTAL_CO2 < GroupMeanCO2(i, c)
    /\ \E c \in potential_meeting_cities(schedules_lazy_df, args.attendees) :
         /\ PreFilter(COMPATIBILITY_MAP, args.attendees, c)
         /\ c \notin Range(cityOrder)
         /\ \E i \in DOMAIN args.attendees : TripsOfGroup(i, c) # {}

\* the itinerary the last Phase-2 iteration chose, and its city
LastChosen == chosen[Len(chosen)]
LastCity == top_3_cities[LastChosen.rank].city

\* the least TOTAL_CO2 among group i's round trips to city c
LeastCO2(i, c) == SetMin({ t.TOTAL_CO2 : t \in TripsOfGroup(i, c) })

\* C22: only the rank-1 city is span-optimised; the itinerary of a result of
\* rank 2 or 3 holds, for each attendee group, a round trip of least TOTAL_CO2
\* among all of the group's round trips to the city, and its total_co2_tonnes
\* is the least any itinerary for the city can have.
C22_LowerRanksLeastCO2 ==
    (chosen # <<>> /\ final_output_list # <<>>) =>
        /\ LastChosen.optimize_span <=> LastChosen.rank = 1
        /\ LastChosen.rank > 1 =>
             /\ LastRecord.rank = LastChosen.rank
             /\ Len(LastChosen.best_itinerary) = Len(args.attendees)
             /\ \A i \in DOMAIN args.attendees :
                  /\ LastChosen.best_itinerary[i].home_city = args.attendees[i].home_city
                  /\ LastChosen.best_itinerary[i].trip \in TripsOfGroup(i, LastCity)
                  /\ LastChosen.best_itinerary[i].trip.TOTAL_CO2 = LeastCO2(i, LastCity)
             /\ LastRecord.total_co2_tonnes
                  = Round2(SeqSum([i \in DOMAIN args.attendees |->
                              args.attendees[i].attendee_count * LeastCO2(i, LastCity)]))

\* a result of rank 2 was built for a city to which a group has round trips of
\* different CO2 and different event spans, the cheapest not the shortest
C22_Witness ==
    /\ chosen # <<>> /\ final_output_list # <<>>
    /\ LastChosen.rank = 2
    /\ \E i \in DOMAIN args.attendees :
         \E t, u \in TripsOfGroup(i, LastCity) :
             /\ t.TOTAL_CO2 < u.TOTAL_CO2
             /\ t.first_arrival # None /\ u.first_arrival # None
             /\ t.last_departure - t.first_arrival > u.last_departure - u.first_arrival

\* the event span, in minutes, of a combination of one round trip per group:
\* latest departure minus earliest arrival over the times that are set, 0
\* when no arrival or no departure is set
SpanMinutes(trips) ==
    LET arrivals == { trips[g].first_arrival : g \in DOMAIN trips } \ {None}
        departures == { trips[g].last_departure : g \in DOMAIN trips } \ {None}
    IN IF arrivals = {} \/ departures = {} THEN 0
       ELSE SetMax(departures) - SetMin(arrivals)

\* t can be, or is in any case, among the five round trips of least CO2 of
\* group i to city c
MaybeInLowest5(i, t, c) ==
    /\ t \in TripsOfGroup(i, c)
    /\ Cardinality({ u \in TripsOfGroup(i, c) : u.TOTAL_CO2 < t.TOTAL_CO2 }) < 5
SurelyInLowest5(i, t, c) ==
    /\ t \in TripsOfGroup(i, c)
    /\ Cardinality({ u \in TripsOfGroup(i, c) \ {t} : u.TOTAL_CO2 <= t.TOTAL_CO2 }) < 5

\* the combinations of one such round trip per group
Lowest5Combinations(c) ==
    { f \in [DOMAIN args.attendees ->
               UNION { TripsOfGroup(i, c) : i \in DOMAIN args.attendees }] :
        \A i \in DOMAIN args.attendees : SurelyInLowest5(i, f[i], c) }

ChosenTrips(ch) == [g \in DOMAIN ch.best_itinerary |-> ch.best_itinerary[g].trip]

\* f does not come before the trips t in the order of the Cartesian product
\* of the groups' lists, each sorted by TOTAL_CO2
NotBefore(f, t) ==
    \/ f = t
    \/ LET g == CHOOSE k \in DOMAIN t :
                    f[k] # t[k] /\ \A j \in 1 .. (k - 1) : f[j] = t[j]
       IN f[g].TOTAL_CO2 >= t[g].TOTAL_CO2

\* the frames get_final_json_for_city fetches for city c
FramesOf(c) ==
    [i \in DOMAIN args.attendees |->
        [home_city |-> args.attendees[i].home_city,
         attendee_count |-> args.attendees[i].attendee_count,
         trips |-> TripsOfGroup(i, c)]]

\* C23: the itinerary of the rank-1 city takes, for each group, one of the
\* group's five round trips of least CO2; its event span is the least over
\* all combinations of such trips; of the combinations of that span it is the
\* first in product order; at most 5^groups combinations are evaluated.
C23_Rank1LeastSpan ==
    (chosen # <<>> /\ LastChosen.rank = 1) =>
        /\ Len(LastChosen.best_itinerary) = Len(args.attendees)
        /\ \A i \in DOMAIN args.attendees :
             MaybeInLowest5(i, ChosenTrips(LastChosen)[i], LastCity)
        /\ \A f \in Lowest5Combinations(LastCity) :
             /\ SpanMinutes(ChosenTrips(LastChosen)) <= SpanMinutes(f)
             /\ SpanMinutes(ChosenTrips(LastChosen)) = SpanMinutes(f)
                  => NotBefore(f, ChosenTrips(LastChosen))
        /\ \A o \in CityTripOptions(FramesOf(LastCity), 5) :
             Len(Product(o)) <= 5 ^ Len(args.attendees)

\* the rank-1 itinerary was chosen where a group has more than five round
\* trips and one outside its five cheapest has a shorter stay than the one chosen
C23_Witness ==
    /\ chosen # <<>> /\ LastChosen.rank = 1
    /\ \E i \in DOMAIN args.attendees :
         /\ Cardinality(TripsOfGroup(i, LastCity)) > 5
         /\ \E t \in TripsOfGroup(i, LastCity) :
              /\ ~MaybeInLowest5(i, t, LastCity)
              /\ t.last_departure - t.first_arrival
                   < SpanMinutes(ChosenTrips(LastChosen))

\* the rank-1 itinerary was chosen among several combinations of the same,
\* least, span
C23_WitnessTie ==
    /\ chosen # <<>> /\ LastChosen.rank = 1
    /\ \E f \in Lowest5Combinations(LastCity) :
         /\ f # ChosenTrips(LastChosen)
         /\ SpanMinutes(f) = SpanMinutes(ChosenTrips(LastChosen))

\* the arrivals and departures that are set in a combination of round trips
ArrivalsOf(trips) == { trips[g].first_arrival : g \in DOMAIN trips } \ {None}
DeparturesOf(trips) == { trips[g].last_departure : g \in DOMAIN trips } \ {None}

\* record rec reports the times of the round trips `trips` for the scenario
TimesReported(rec, trips) ==
    IF ArrivalsOf(trips) = {} \/ DeparturesOf(trips) = {}
    THEN /\ rec.event_span.start = isoformat(args.window_start)
         /\ rec.event_span.end = isoformat(args.window_end)
         /\ rec.event_span.total_hours = 0
         /\ rec.event_dates.start = isoformat(args.window_start)
         /\ rec.event_dates.end
              = isoformat(args.window_start + args.event_duration_hours * 60)
    ELSE /\ rec.event_span.start = isoformat(SetMin(ArrivalsOf(trips)))
         /\ rec.event_span.end = isoformat(SetMax(DeparturesOf(trips)))
         /\ rec.event_span.total_hours
              = Round2(((SetMax(DeparturesOf(trips)) - SetMin(ArrivalsOf(trips))) * Scale)
                         \div 60)
         /\ rec.event_dates.start = isoformat(SetMax(ArrivalsOf(trips)))
         /\ rec.event_dates.end
              = isoformat(SetMax(ArrivalsOf(trips)) + args.event_duration_hours * 60)

\* C24: a result record reports as total CO2 the sum over the groups of
\* headcount times the CO2 of the group's chosen round trip; its event span
\* runs from the earliest outbound arrival to the latest inbound departure,
\* the meeting from the latest outbound arrival for the event duration; when
\* every attendee is local the span is the availability window, the meeting
\* starts at the window's start and the span's hours are 0.
C24_RecordMetrics ==
    (chosen # <<>> /\ final_output_list # <<>>) =>
        /\ LastRecord.rank = LastChosen.rank
        /\ LastRecord.event_location = LastCity
        /\ Len(LastChosen.best_itinerary) = Len(args.attendees)
        /\ \A i \in DOMAIN args.attendees :
             LastChosen.best_itinerary[i].attendee_count = args.attendees[i].attendee_count
        /\ LastRecord.total_co2_tonnes
             = Round2(SeqSum([i \in DOMAIN args.attendees |->
                         args.attendees[i].attendee_count
                           * ChosenTrips(LastChosen)[i].TOTAL_CO2]))
        /\ TimesReported(LastRecord, ChosenTrips(LastChosen))

\* a record for two travelling groups, three heads, arriving at different times
C24_Witness ==
    /\ chosen # <<>> /\ final_output_list # <<>>
    /\ Heads = 3
    /\ Cardinality(ArrivalsOf(ChosenTrips(LastChosen))) = 2
    /\ LastRecord.total_co2_tonnes > 0

\* a record for a city where every attendee is local
C24_WitnessAllLocal ==
    /\ chosen # <<>> /\ final_output_list # <<>>
    /\ ArrivalsOf(ChosenTrips(LastChosen)) = {}
    /\ LastRecord.event_span.total_hours = 0

\* the steps of a call that goes all the way to Phase 2
StepOrder ==
    <<"clear_cache", "validate_weights", "read_scenario", "list_schedule_files",
      "load_schedules", "load_emissions", "build_compatibility_map", "phase1", "top_3">>

\* the steps taken so far are a beginning of StepOrder, followed, once it is
\* complete, by at most one Phase-2 step per top city
StepsInOrder ==
    LET n == Len(steps)
        m == IF n <= Len(StepOrder) THEN n ELSE Len(StepOrder)
    IN /\ SubSeq(steps, 1, m) = SubSeq(StepOrder, 1, m)
       /\ \A j \in (Len(StepOrder) + 1) .. n : steps[j] = "phase2"
       /\ n <= Len(StepOrder) + Len(top_3_cities)

\* no round trip has been computed or cached before the compatibility map is built
NoTripBeforeIndex ==
    (\A k \in DOMAIN steps : steps[k] # "build_compatibility_map") =>
        history = {} /\ legs = {} /\ ROUND_TRIP_CACHE = EmptyCache

\* when Phase 2 is about to start every candidate city has been scored or rejected
AllScoredBeforePhase2 ==
    (pc = "phase2" /\ rank = 1) =>
        \A c \in potential_meeting_cities(schedules_lazy_df, args.attendees) :
            c \in Range(cityOrder) \/ Rejected(c)

\* the ways a call ends
TerminalOutcome ==
    \/ /\ ret = [kind |-> "raise", value |-> <<"ValueError">>]
       /\ steps = SubSeq(StepOrder, 1, 2)
    \/ /\ ret = NoFilesError
       /\ steps = SubSeq(StepOrder, 1, 4)
    \/ /\ ret = NoValidError
       /\ steps = SubSeq(StepOrder, 1, 8)
    \/ /\ ret.kind = "return"
       /\ ret.value = final_output_list
       /\ ret.value # <<>>
       /\ \A n \in DOMAIN ret.value : "rank" \in DOMAIN ret.value[n]
       /\ steps = StepOrder \o [j \in 1 .. Len(top_3_cities) |-> "phase2"]

Recomputed(h1, h2) == h1.key = h2.key /\ ~h1.hit /\ ~h2.hit

\* the returned list has one record per city of top_3_cities, in that order:
\* what the call returns when no other call runs (C27)
ReturnsAsAlone ==
    (pc = "returned" /\ ret.kind = "return" /\ top_3_cities # <<>>) =>
        /\ Len(ret.value) = Len(top_3_cities)
        /\ \A k \in DOMAIN ret.value :
               /\ ret.value[k].rank = k
               /\ ret.value[k].event_location = top_3_cities[k].city

\* C26: when another call runs between the steps of a call, a round trip
\* list computed again under the same key is the same list, and the call
\* returns what it returns when run alone, whatever the other call's window.
C26_InterleavedRunsAsAlone ==
    /\ \A h1, h2 \in history : Recomputed(h1, h2) => h1.result = h2.result
    /\ ReturnsAsAlone

(***************************************************************************)
(* The records of a run made alone                                         *)
(***************************************************************************)
\* min(3, number of cities scored in Phase 1)
SurvivorCount == IF Len(city_scores) < 3 THEN Len(city_scores) ELSE 3

\* the returned list holds one record per city of top_3_cities, ranked 1..k
\* in the order of the list
OneRecordPerTopCity ==
    /\ Len(ret.value) = SurvivorCount
    /\ Len(top_3_cities) = SurvivorCount
    /\ \A k \in 1..SurvivorCount :
           /\ ret.value[k].rank = k
           /\ ret.value[k].event_location = top_3_cities[k].city
           /\ \E j \in DOMAIN cityOrder : cityOrder[j] = top_3_cities[k].city

\* C27: in a run made alone every Phase-2 iteration appends a record, never
\* None, and a run that reached Phase 2 returns exactly min(3, cities scored
\* in Phase 1) records, of ranks 1..k in order, one per top city.
C27_NoDropWhenAlone ==
    /\ [][(pc = "phase2" /\ steps' # steps) =>
            Len(final_output_list') = Len(final_output_list) + 1]_vars
    /\ []((pc = "returned" /\ ret.kind = "return" /\ city_scores # <<>>) =>
            OneRecordPerTopCity)

\* a run returned three records although more than three cities were scored
C27_Witness ==
    /\ pc = "returned" /\ ret.kind = "return"
    /\ Len(city_scores) > 3
    /\ Len(ret.value) = 3

\* a run returned two records, two cities only having been scored
C27_WitnessFewer ==
    /\ pc = "returned" /\ ret.kind = "return"
    /\ Len(city_scores) = 2
    /\ Len(ret.value) = 2

(***************************************************************************)
(* The meeting and the event span of a record                              *)
(***************************************************************************)
\* datetime.fromisoformat: the instant an isoformat string names
fromisoformat(x) == x[1] * MinutesPerDay + x[2]

\* C28: in a record with a travelling group the event span starts no later
\* than the meeting and ends after the meeting ends, so its hours exceed the
\* event duration.
C28_MeetingInsideSpan ==
    (chosen # <<>> /\ final_output_list # <<>>
       /\ ArrivalsOf(ChosenTrips(LastChosen)) # {}) =>
        /\ fromisoformat(LastRecord.event_span.start)
             <= fromisoformat(LastRecord.event_dates.start)
        /\ fromisoformat(LastRecord.event_dates.end)
             < fromisoformat(LastRecord.event_span.end)
        /\ LastRecord.event_span.total_hours > args.event_duration_hours * 100
        /\ LastRecord.event_span.total_hours
             > ((fromisoformat(LastRecord.event_dates.end)
                   - fromisoformat(LastRecord.event_dates.start)) * 100) \div 60

\* a record for two travelling groups that arrive at different times and
\* leave at different times
C28_Witness ==
    /\ chosen # <<>> /\ final_output_list # <<>>
    /\ Cardinality(ArrivalsOf(ChosenTrips(LastChosen))) = 2
    /\ Cardinality(DeparturesOf(ChosenTrips(LastChosen))) = 2
    /\ fromisoformat(LastRecord.event_span.start)
         < fromisoformat(LastRecord.event_dates.start)

\* C29: in a record every travelling group has arrived when the reported
\* meeting starts and leaves no earlier than the reported meeting ends,
\* whether the itinerary was chosen for its span (rank 1) or for its CO2.
C29_EveryGroupAttendsMeeting ==
    (chosen # <<>> /\ final_output_list # <<>>) =>
        \A i \in DOMAIN ChosenTrips(LastChosen) :
            ChosenTrips(LastChosen)[i].first_arrival # None =>
                /\ ChosenTrips(LastChosen)[i].first_arrival
                     <= fromisoformat(LastRecord.event_dates.start)
                /\ ChosenTrips(LastChosen)[i].last_departure
                     >= fromisoformat(LastRecord.event_dates.end)

(***************************************************************************)
(* Legs and the availability window                                        *)
(***************************************************************************)
\* leg l, returned for the cities a -> b, leaves a on its first flight and
\* reaches b on its last, and its times are those of these flights
LegJoins(l, a, b) ==
    /\ RowAt(l.rows[1]).DEPCITY = a
    /\ RowAt(l.rows[1]).DEPART_TIME_UTC = l.DEPART_TIME_UTC
    /\ RowAt(l.rows[Len(l.rows)]).ARRCITY = b
    /\ RowAt(l.rows[Len(l.rows)]).ARRIVE_TIME_UTC = l.ARRIVE_TIME_UTC

\* C30: every leg find_flights returned, direct or one-stop, leaves the origin
\* at or after window_start and reaches the destination at or before
\* window_end; so does every round trip with a flight: its outbound leg
\* leaves at or after window_start and its inbound leg arrives at or before
\* window_end.
C30_LegsInsideWindow ==
    /\ \A m \in legs :
         /\ LegJoins(m.leg, m.from, m.to)
         /\ m.leg.DEPART_TIME_UTC >= args.window_start
         /\ m.leg.ARRIVE_TIME_UTC <= args.window_end
    /\ \A h \in history :
         h.key[1] # h.key[2] =>
             \A t \in h.result :
                 /\ t.outbound_dep_utc >= args.window_start
                 /\ RowAt(t.rows[1][1]).DEPART_TIME_UTC = t.outbound_dep_utc
                 /\ RowAt(t.rows[2][Len(t.rows[2])]).ARRIVE_TIME_UTC <= args.window_end
                 /\ t.first_arrival <= args.window_end
                 /\ t.last_departure >= args.window_start

\* find_flights returned a one-stop leg in a run whose window opens after
\* midnight, the loaded schedule having a direct flight from the same origin
\* that leaves before the window opens and one into the same destination
\* that leaves before the window opens
C30_Witness ==
    \E m \in legs :
        /\ m.leg.Route_Type = "1-Stop"
        /\ args.window_start > 0
        /\ \E r \in schedules_lazy_df :
             /\ r.DEPCITY = m.from /\ r.STOPS = 0
             /\ r.DEPART_TIME_UTC < args.window_start
        /\ \E r \in schedules_lazy_df :
             /\ r.ARRCITY = m.to /\ r.STOPS = 0
             /\ r.DEPART_TIME_UTC < args.window_start
             /\ r.ARRIVE_TIME_UTC <= args.window_end
====
